---- MODULE Spec2Model ----
(***************************************************************************)
(* pi-opensync-plugin: the event-to-payload pipeline.                      *)
(*                                                                         *)
(*   - the payload transformer of src/src/transform.ts (lines 1-283, the   *)
(*     current version of the file) as operators;                          *)
(*   - the SessionState accumulator of src/unnamed/part_010 (lines 1-89);  *)
(*   - the event handlers of src/src/index.ts as actions.                  *)
(*                                                                         *)
(* A JavaScript string is a sequence of tokens: "" is << >>, "a" is        *)
(* <<"a">>, concatenation is \o, and a string is truthy iff it is not      *)
(* empty.  An optional field of a payload that is undefined is a field the *)
(* record does not have (JSON.stringify drops undefined fields).           *)
(***************************************************************************)
EXTENDS Integers, Sequences, FiniteSets, TLC

\* ------------------------------------------------------------------ bounds

\* Longest assistant content list explored by SpecTransform.
MaxContent == 3
\* Longest positional tool-result list explored by SpecTransform.
MaxResults == 2
\* Number of session ids of the host.
MaxSessions == 2
\* Number of steps (events of the host, clock ticks) of a behaviour of Spec.
MaxSteps == 4

\* The steps of a behaviour in which requests may fail.
MaxUnreliableSteps == 2

\* The longest response body built from BodyTokens.
MaxBody == 2

\* The steps of a behaviour in which handlers overlap: each event and each
\* return from an await is one step.
MaxOverlapSteps == 5

\* ----------------------------------------------------------------- strings

NL == <<"\n">>

Truthy(s) == Len(s) > 0

RECURSIVE Join(_, _)
Join(list, sep) ==
    IF Len(list) = 0 THEN << >>
    ELSE IF Len(list) = 1 THEN list[1]
    ELSE list[1] \o sep \o Join(Tail(list), sep)

BoundedSeq(S, n) == UNION {[1..k -> S] : k \in 0..n}

\* An absent record-valued value (undefined / null).  An optional string that
\* is undefined is << >>, like "": the code only tests such values for
\* truthiness.
Absent == [absent |-> TRUE]

\* ------------------------------------------------------------ ContentModel

TextContent(t) == [type |-> "text", text |-> t]

ThinkingContent(t) == [type |-> "thinking", thinking |-> t]

ToolCallContent(id, name, args) ==
    [type |-> "toolCall", id |-> id, name |-> name, arguments |-> args]

ImageContent(d) == [type |-> "image", data |-> d, mimeType |-> "image/png"]

ToolResultMessageLike(toolName, content) ==
    [role |-> "toolResult", toolName |-> toolName, content |-> content]

AssistantMessageLike(content, timestamp, usage) ==
    [role |-> "assistant", content |-> content, model |-> "m1",
     timestamp |-> timestamp, usage |-> usage]

\* -------------------------------------------------------- message transform

\* Faulty variant of AssistantTextPieces: a toolCall contributes its name.
RECURSIVE AssistantTextPiecesWithCalls(_, _)
AssistantTextPiecesWithCalls(content, includeThinking) ==
    IF content = << >> THEN << >>
    ELSE LET part == Head(content)
             rest == AssistantTextPiecesWithCalls(Tail(content), includeThinking)
         IN  IF part.type = "text" THEN <<part.text>> \o rest
             ELSE IF part.type = "thinking" /\ includeThinking
                  THEN <<(<<"<thinking>">> \o part.thinking \o <<"</thinking>">>)>> \o rest
             ELSE IF part.type = "toolCall" THEN <<(<<part.name>>)>> \o rest
             ELSE rest

RECURSIVE AssistantTextPieces(_, _)
AssistantTextPieces(content, includeThinking) ==
    IF content = << >> THEN << >>
    ELSE LET part == Head(content)
             rest == AssistantTextPieces(Tail(content), includeThinking)
         IN  IF part.type = "text" THEN <<part.text>> \o rest
             ELSE IF part.type = "thinking" /\ includeThinking
                  THEN <<(<<"<thinking>">> \o part.thinking \o <<"</thinking>">>)>> \o rest
             ELSE rest

extractAssistantMessageText(content, includeThinking) ==
    Join(AssistantTextPieces(content, includeThinking), NL)

IsToolCall(part) == part.type = "toolCall"

IsThinking(part) == part.type = "thinking"

IsText(part) == part.type = "text"

countToolCalls(content) == Len(SelectSeq(content, IsToolCall))

RECURSIVE TextsOf(_)
TextsOf(content) ==
    IF content = << >> THEN << >>
    ELSE IF Head(content).type = "text"
         THEN <<Head(content).text>> \o TextsOf(Tail(content))
         ELSE TextsOf(Tail(content))

extractUserMessageText(content) == Join(TextsOf(content), NL)

extractToolResultParts(toolResult) ==
    <<[type |-> "tool-result", content |-> Join(TextsOf(toolResult.content), NL)]>>

ToolCallPart(part) ==
    [type |-> "tool-call",
     content |-> [toolName |-> part.name, args |-> part.arguments]]

\* Faulty variant of InterleaveFrom: resultIndex is never advanced, so every
\* call is paired with the same result.
RECURSIVE InterleaveFromStuck(_, _, _)
InterleaveFromStuck(content, toolResults, resultIndex) ==
    IF content = << >> THEN << >>
    ELSE LET part == Head(content) IN
         IF part.type = "toolCall"
         THEN IF resultIndex < Len(toolResults)
              THEN <<ToolCallPart(part)>>
                     \o extractToolResultParts(toolResults[resultIndex + 1])
                     \o InterleaveFromStuck(Tail(content), toolResults, resultIndex)
              ELSE <<ToolCallPart(part)>>
                     \o InterleaveFromStuck(Tail(content), toolResults, resultIndex)
         ELSE InterleaveFromStuck(Tail(content), toolResults, resultIndex)

\* The first pass: every toolCall, followed by the next unconsumed result.
RECURSIVE InterleaveFrom(_, _, _)
InterleaveFrom(content, toolResults, resultIndex) ==
    IF content = << >> THEN << >>
    ELSE LET part == Head(content) IN
         IF part.type = "toolCall"
         THEN IF resultIndex < Len(toolResults)
              THEN <<ToolCallPart(part)>>
                     \o extractToolResultParts(toolResults[resultIndex + 1])
                     \o InterleaveFrom(Tail(content), toolResults, resultIndex + 1)
              ELSE <<ToolCallPart(part)>>
                     \o InterleaveFrom(Tail(content), toolResults, resultIndex)
         ELSE InterleaveFrom(Tail(content), toolResults, resultIndex)

RECURSIVE CallPartsOf(_)
CallPartsOf(content) ==
    IF content = << >> THEN << >>
    ELSE IF Head(content).type = "toolCall"
         THEN <<ToolCallPart(Head(content))>> \o CallPartsOf(Tail(content))
         ELSE CallPartsOf(Tail(content))

RECURSIVE ResultPartsOf(_)
ResultPartsOf(toolResults) ==
    IF toolResults = << >> THEN << >>
    ELSE extractToolResultParts(Head(toolResults)) \o ResultPartsOf(Tail(toolResults))

\* Faulty variant of InterleavedToolParts: the rejected earlier design, all the calls
\* and then the results of the calls that have one.
GroupedToolParts(content, toolResults) ==
    LET calls == CallPartsOf(content)
        n == IF Len(calls) < Len(toolResults) THEN Len(calls) ELSE Len(toolResults)
    IN  calls \o ResultPartsOf(SubSeq(toolResults, 1, n))

InterleavedToolParts(content, toolResults) ==
    InterleaveFrom(content, toolResults, 0)

RECURSIVE ThinkingPartsOf(_)
ThinkingPartsOf(content) ==
    IF content = << >> THEN << >>
    ELSE IF Head(content).type = "thinking"
         THEN <<[type |-> "thinking", content |-> Head(content).thinking]>>
                \o ThinkingPartsOf(Tail(content))
         ELSE ThinkingPartsOf(Tail(content))

\* Faulty variant of ThinkingParts: the flag is not looked at.
ThinkingPartsWhateverFlag(content, includeThinking) == ThinkingPartsOf(content)

\* The second pass.
ThinkingParts(content, includeThinking) ==
    IF includeThinking THEN ThinkingPartsOf(content) ELSE << >>

\* Faulty variant of NeedsTextPart: the tool results are forgotten.
NeedsTextPartNoResults(textContent, hasToolCalls, hasThinking, hasToolResults) ==
    Truthy(textContent) /\ (hasToolCalls \/ hasThinking)

NeedsTextPart(textContent, hasToolCalls, hasThinking, hasToolResults) ==
    Truthy(textContent) /\ (hasToolCalls \/ hasThinking \/ hasToolResults)

\* Faulty variant of WithParts: the parts field is always set.
WithPartsAlways(payload, parts) == [parts |-> parts] @@ payload

WithParts(payload, parts) ==
    IF Len(parts) > 0 THEN [parts |-> parts] @@ payload ELSE payload

\* Faulty variant of AssembleParts: the thinking parts are pushed before the
\* tool parts.
AssemblePartsThinkingFirst(textPart, toolParts, thinkingParts) ==
    textPart \o thinkingParts \o toolParts

\* parts, in the order of the pushes: the text part, the first pass, the
\* second pass.
AssembleParts(textPart, toolParts, thinkingParts) ==
    textPart \o toolParts \o thinkingParts

transformAssistantMessage(sessionId, messageId, message, includeThinking, toolResults) ==
    LET textContent == extractAssistantMessageText(message.content, includeThinking)
        base == [sessionExternalId |-> sessionId,
                 externalId |-> messageId,
                 role |-> "assistant",
                 model |-> message.model,
                 createdAt |-> message.timestamp]
        withText == IF Truthy(textContent)
                    THEN [textContent |-> textContent] @@ base
                    ELSE base
        withUsage == IF message.usage # Absent
                     THEN [promptTokens |-> message.usage.input,
                           completionTokens |-> message.usage.output] @@ withText
                     ELSE withText
        hasToolCalls == \E i \in 1..Len(message.content) : IsToolCall(message.content[i])
        hasThinking == includeThinking
                       /\ \E i \in 1..Len(message.content) : IsThinking(message.content[i])
        hasToolResults == Len(toolResults) > 0
        textPart == IF NeedsTextPart(textContent, hasToolCalls, hasThinking, hasToolResults)
                    THEN <<[type |-> "text", content |-> textContent]>>
                    ELSE << >>
        parts == AssembleParts(textPart,
                               InterleavedToolParts(message.content, toolResults),
                               ThinkingParts(message.content, includeThinking))
    IN  WithParts(withUsage, parts)

transformUserMessage(sessionId, messageId, text, timestamp) ==
    [sessionExternalId |-> sessionId,
     externalId |-> messageId,
     role |-> "user",
     textContent |-> text,
     createdAt |-> timestamp]

\* ------------------------------------------------------------ SessionState

basename(path) == IF Len(path) = 0 THEN << >> ELSE <<path[Len(path)]>>

\* new SessionState(sessionId, cwd, model, parentExternalId), read at `clock`.
\* model is ctx.model reduced to {id, provider}, or Absent.
NewSessionState(sessionId, cwd, model, parentExternalId, clock) ==
    [externalId |-> sessionId,
     parentExternalId |-> parentExternalId,
     projectPath |-> cwd,
     projectName |-> basename(cwd),
     startedAt |-> clock,
     model |-> IF model = Absent THEN << >> ELSE model.id,
     provider |-> IF model = Absent THEN << >> ELSE model.provider,
     promptTokens |-> 0,
     completionTokens |-> 0,
     cost |-> 0,
     messageCount |-> 0,
     toolCallCount |-> 0]

\* Faulty variant of updateUsage: the totals are overwritten by the usage of
\* the message.
updateUsageOverwriting(st, usage) ==
    [st EXCEPT !.promptTokens = usage.input,
               !.completionTokens = usage.output,
               !.cost = usage.cost.total]

updateUsage(st, usage) ==
    [st EXCEPT !.promptTokens = @ + usage.input,
               !.completionTokens = @ + usage.output,
               !.cost = @ + usage.cost.total]

\* Faulty variant of incrementMessageCount: the counter is left alone.
incrementMessageCountSkipped(st) == st

incrementMessageCount(st) == [st EXCEPT !.messageCount = @ + 1]

incrementToolCallCount(st, count) == [st EXCEPT !.toolCallCount = @ + count]

\* Faulty variant of updateModel: the provider is left alone.
updateModelIdOnly(st, model) == [st EXCEPT !.model = model.id]

updateModel(st, model) == [st EXCEPT !.model = model.id, !.provider = model.provider]

\* Faulty variant of generateMessageId: the id counts from zero.
generateMessageIdFromZero(st, role) ==
    st.externalId \o <<"-", role, "-", ToString(st.messageCount - 1)>>

\* `${this.externalId}-${role}-${this.messageCount}`
generateMessageId(st, role) ==
    st.externalId \o <<"-", role, "-", ToString(st.messageCount)>>

\* ------------------------------------------------------- session transform

\* parentExternalId.slice(0, 8)
ForkPrefixLen == 8

slice(str, n) == SubSeq(str, 1, IF Len(str) < n THEN Len(str) ELSE n)

ForkMarker(parentExternalId) ==
    <<"[Fork::">> \o slice(parentExternalId, ForkPrefixLen) \o <<"]">>

\* Faulty variant of generateSessionTitle: the earlier version of the function, with
\* no "Untitled" fallback.
generateSessionTitleNoFallback(st, sessionName) ==
    IF Truthy(st.parentExternalId)
    THEN IF Truthy(sessionName)
         THEN ForkMarker(st.parentExternalId) \o <<" ">> \o sessionName
         ELSE ForkMarker(st.parentExternalId)
    ELSE sessionName

\* Faulty variant of generateSessionTitle: the fork marker is not prepended.
generateSessionTitleNoMarker(st, sessionName) ==
    IF Truthy(sessionName) THEN sessionName ELSE <<"Untitled">>

generateSessionTitle(st, sessionName) ==
    LET title == IF Truthy(sessionName) THEN sessionName ELSE <<"Untitled">>
    IN  IF Truthy(st.parentExternalId)
        THEN ForkMarker(st.parentExternalId) \o <<" ">> \o title
        ELSE title

TitleField(st, sessionName) ==
    LET title == generateSessionTitle(st, sessionName)
    IN  IF Truthy(title) THEN [title |-> title] ELSE << >>

ModelFields(st) ==
    (IF Truthy(st.model) THEN [model |-> st.model] ELSE << >>)
      @@ (IF Truthy(st.provider) THEN [provider |-> st.provider] ELSE << >>)

\* Faulty variant of UsageFields: the two token fields are tested one by one and
\* totalTokens is sent with either.
UsageFieldsEach(st) ==
    (IF st.promptTokens > 0 THEN [promptTokens |-> st.promptTokens] ELSE << >>)
      @@ (IF st.completionTokens > 0
          THEN [completionTokens |-> st.completionTokens] ELSE << >>)
      @@ (IF st.promptTokens > 0 \/ st.completionTokens > 0
          THEN [totalTokens |-> st.promptTokens + st.completionTokens] ELSE << >>)

\* Faulty variant of UsageFields: the token fields are always sent.
UsageFieldsAlways(st) ==
    [promptTokens |-> st.promptTokens,
     completionTokens |-> st.completionTokens,
     totalTokens |-> st.promptTokens + st.completionTokens]

UsageFields(st) ==
    IF st.promptTokens > 0 \/ st.completionTokens > 0
    THEN [promptTokens |-> st.promptTokens,
          completionTokens |-> st.completionTokens,
          totalTokens |-> st.promptTokens + st.completionTokens]
    ELSE << >>

CostField(st) == IF st.cost > 0 THEN [cost |-> st.cost] ELSE << >>

MessageCountField(st) ==
    IF st.messageCount > 0 THEN [messageCount |-> st.messageCount] ELSE << >>

\* Faulty variant of DurationField: the duration is sent on every sync.
DurationFieldAlways(st, isFinal, clock) == [durationMs |-> clock - st.startedAt]

DurationField(st, isFinal, clock) ==
    IF isFinal THEN [durationMs |-> clock - st.startedAt] ELSE << >>

\* transformSession(state, sessionName, isFinal), Date.now() being `clock`.
transformSession(st, sessionName, isFinal, clock) ==
    [externalId |-> st.externalId,
     source |-> "pi",
     projectPath |-> st.projectPath,
     projectName |-> st.projectName]
      @@ TitleField(st, sessionName)
      @@ ModelFields(st)
      @@ UsageFields(st)
      @@ CostField(st)
      @@ MessageCountField(st)
      @@ DurationField(st, isFinal, clock)

\* ------------------------------------------------------------ sync requests

SyncSession(payload) == [op |-> "syncSession", payload |-> payload]

SyncMessage(payload) == [op |-> "syncMessage", payload |-> payload]

SyncBatch(sessions, messages) ==
    [op |-> "syncBatch", sessions |-> sessions, messages |-> messages]

\* ({ createdAt, ...rest }) => rest
WithoutCreatedAt(payload) ==
    [f \in DOMAIN payload \ {"createdAt"} |-> payload[f]]

\* ----------------------------------------------------------- branch entries

\* A session entry of type "message"; syncedAs records the externalId under
\* which the message was sent to the remote service (<< >>: never sent).
MessageEntry(message, syncedAs) ==
    [type |-> "message", message |-> message, syncedAs |-> syncedAs]

\* An entry that is no message (the host records model changes).
ModelChangeEntry == [type |-> "model_change"]

\* A user message; a plain string content is the one-text-part content.
UserMessage(text, timestamp) ==
    [role |-> "user", content |-> <<TextContent(text)>>, timestamp |-> timestamp]

CustomMessage == [role |-> "custom"]

IsMessageEntry(entry) == entry.type = "message"

\* The loop of the session_start handler: usage and tool calls of the
\* assistant messages of the branch, and the number of message entries.
RECURSIVE RestoreFromBranch(_, _, _)
RestoreFromBranch(st, msgCount, entries) ==
    IF entries = << >> THEN [state |-> st, msgCount |-> msgCount]
    ELSE LET entry == Head(entries) IN
         IF entry.type = "message"
         THEN LET msg == entry.message
                  st1 == IF msg.role = "assistant" /\ msg.usage # Absent
                         THEN updateUsage(st, msg.usage) ELSE st
                  st2 == IF msg.role = "assistant" /\ countToolCalls(msg.content) > 0
                         THEN incrementToolCallCount(st1, countToolCalls(msg.content))
                         ELSE st1
              IN  RestoreFromBranch(st2, msgCount + 1, Tail(entries))
         ELSE RestoreFromBranch(st, msgCount, Tail(entries))

\* Faulty variant of RestoredMessageCount: on a resume the counter starts again at 0.
RestoredMessageCountZero(st, msgCount) == st

RestoredMessageCount(st, msgCount) ==
    IF msgCount > 0 THEN [st EXCEPT !.messageCount = msgCount] ELSE st

\* The loop of the session_fork handler: the message payloads of the batch,
\* usage and tool calls, and the number of message entries.  The ids are
\* generated from the state as it is inside the loop.
RECURSIVE ReplayFork(_, _, _, _, _, _)
ReplayFork(st, msgCount, messages, sessionId, entries, syncThinking) ==
    IF entries = << >>
    THEN [state |-> st, msgCount |-> msgCount, messages |-> messages]
    ELSE LET entry == Head(entries) IN
         IF entry.type = "message"
         THEN LET msg == entry.message IN
              IF msg.role = "user"
              THEN ReplayFork(st, msgCount + 1,
                       Append(messages,
                              transformUserMessage(sessionId,
                                                   generateMessageId(st, "user"),
                                                   extractUserMessageText(msg.content),
                                                   msg.timestamp)),
                       sessionId, Tail(entries), syncThinking)
              ELSE IF msg.role = "assistant"
              THEN LET payload == transformAssistantMessage(sessionId,
                                       generateMessageId(st, "assistant"),
                                       msg, syncThinking, << >>)
                       st1 == IF msg.usage # Absent THEN updateUsage(st, msg.usage) ELSE st
                       st2 == IF countToolCalls(msg.content) > 0
                              THEN incrementToolCallCount(st1, countToolCalls(msg.content))
                              ELSE st1
                   IN  ReplayFork(st2, msgCount + 1, Append(messages, payload),
                                  sessionId, Tail(entries), syncThinking)
              ELSE ReplayFork(st, msgCount + 1, messages,
                              sessionId, Tail(entries), syncThinking)
         ELSE ReplayFork(st, msgCount, messages, sessionId, Tail(entries), syncThinking)

\* ------------------------------------------------------------ SyncClient

\* What the remote end does with one fetch: fetch rejects with a thrown
\* value, or a response arrives.  A response whose body cannot be read has
\* bodyError set to the value that text() / json() rejects with.
ErrorObject(message) == [isError |-> TRUE, message |-> message]

ThrownValue(v) == [isError |-> FALSE, value |-> v]

FetchThrows(error) == [kind |-> "throws", error |-> error]

Response(status, body, bodyError) ==
    [kind |-> "response", status |-> status, body |-> body, bodyError |-> bodyError]

\* response.ok
ResponseOk(response) == response.status >= 200 /\ response.status <= 299

\* The JSON texts response.json() accepts, over tokenised bodies: a scalar,
\* or an object of "key" : value members.
JsonStrings == {"\"ok\"", "\"sessionId\"", "\"s1\""}

JsonScalars == {"true", "false", "null"} \cup JsonStrings

ParseFailed == [ok |-> FALSE, rest |-> << >>]

RECURSIVE ParseValue(_)
RECURSIVE ParseMembers(_)
ParseValue(ts) ==
    IF ts = << >> THEN ParseFailed
    ELSE IF Head(ts) \in JsonScalars THEN [ok |-> TRUE, rest |-> Tail(ts)]
    ELSE IF Head(ts) = "{"
         THEN IF Len(ts) >= 2 /\ ts[2] = "}"
              THEN [ok |-> TRUE, rest |-> SubSeq(ts, 3, Len(ts))]
              ELSE ParseMembers(Tail(ts))
    ELSE ParseFailed

ParseMembers(ts) ==
    IF Len(ts) < 3 THEN ParseFailed
    ELSE IF ts[1] \notin JsonStrings \/ ts[2] # ":" THEN ParseFailed
    ELSE LET v == ParseValue(SubSeq(ts, 3, Len(ts))) IN
         IF ~v.ok \/ v.rest = << >> THEN ParseFailed
         ELSE IF Head(v.rest) = "}" THEN [ok |-> TRUE, rest |-> Tail(v.rest)]
         ELSE IF Head(v.rest) = "," THEN ParseMembers(Tail(v.rest))
         ELSE ParseFailed

JsonParses(body) == LET v == ParseValue(body) IN v.ok /\ v.rest = << >>

\* What response.json() rejects with on a body that is no JSON text.
JsonSyntaxError(body) ==
    ErrorObject(IF body = << >> THEN <<"Unexpected end of JSON input">>
                ELSE <<"Unexpected token">>)

\* A block either returns a value or raises; fetched is the list of the
\* fetch calls made on the way, logged the lines appended to the debug log.
Returned(value, fetched) ==
    [raised |-> FALSE, value |-> value, fetched |-> fetched, logged |-> << >>]

Raised(error, fetched) ==
    [raised |-> TRUE, error |-> error, fetched |-> fetched, logged |-> << >>]

Fetch(endpoint, data) == [endpoint |-> endpoint, body |-> data]

\* Debug tracing of a client: this.debug, and whether appendFileSync throws.
Tracing(debug, appendFails) == [debug |-> debug, appendFails |-> appendFails]

\* What appendFileSync throws.
AppendError == ErrorObject(<<"EACCES">>)

\* Faulty variant of debugLog: the try / catch around the append is missing.
debugLogUnguarded(entry, tracing) ==
    IF tracing.appendFails
    THEN [raised |-> TRUE, error |-> AppendError, written |-> << >>]
    ELSE [raised |-> FALSE, written |-> <<entry>>]

\* debugLog(entry): the line is appended, or the failure is swallowed.
debugLog(entry, tracing) ==
    IF tracing.appendFails
    THEN [raised |-> FALSE, written |-> << >>]
    ELSE [raised |-> FALSE, written |-> <<entry>>]

\* SyncClient.log(entry)
log(entry, tracing) ==
    IF tracing.debug THEN debugLog(entry, tracing)
    ELSE [raised |-> FALSE, written |-> << >>]

\* this.log(entry) as the last statement of a block before it returns: the
\* block returns as it would, or raises what the log call raises.
LogThen(entry, tracing, block) ==
    LET l == log(entry, tracing) IN
    IF l.raised THEN [Raised(l.error, block.fetched) EXCEPT !.logged = block.logged]
    ELSE [block EXCEPT !.logged = @ \o l.written]

\* The try block of request().  A success result also carries the parsed
\* body as data, which no caller reads; it is left out.
TryRequest(endpoint, data, outcome, tracing) ==
    LET fetched == <<Fetch(endpoint, data)>> IN
    IF outcome.kind = "throws" THEN Raised(outcome.error, fetched)
    ELSE IF ~ResponseOk(outcome)
         THEN IF outcome.bodyError # Absent THEN Raised(outcome.bodyError, fetched)
              ELSE LogThen([type |-> "error", endpoint |-> endpoint,
                            status |-> outcome.status, error |-> outcome.body],
                           tracing,
                           Returned([success |-> FALSE,
                                     error |-> <<ToString(outcome.status), ":", " ">>
                                                 \o outcome.body],
                                    fetched))
    ELSE IF outcome.bodyError # Absent THEN Raised(outcome.bodyError, fetched)
    ELSE IF ~JsonParses(outcome.body) THEN Raised(JsonSyntaxError(outcome.body), fetched)
    ELSE LogThen([type |-> "success", endpoint |-> endpoint, response |-> outcome.body],
                 tracing,
                 Returned([success |-> TRUE], fetched))

\* error instanceof Error ? error.message : String(error)
ErrorMessage(error) == IF error.isError THEN error.message ELSE error.value

\* Faulty variant of CatchRequest: the exception is not caught.
CatchRequestRethrow(endpoint, attempt, tracing) == attempt

\* The catch block of request().
CatchRequest(endpoint, attempt, tracing) ==
    IF attempt.raised
    THEN LogThen([type |-> "exception", endpoint |-> endpoint,
                  error |-> ErrorMessage(attempt.error)],
                 tracing,
                 [Returned([success |-> FALSE, error |-> ErrorMessage(attempt.error)],
                           attempt.fetched)
                    EXCEPT !.logged = attempt.logged])
    ELSE attempt

\* Faulty variant of request: a failed request is issued once more.
requestWithRetry(endpoint, data, outcome, tracing) ==
    LET first == CatchRequest(endpoint, TryRequest(endpoint, data, outcome, tracing),
                              tracing) IN
    IF first.value.success THEN first
    ELSE [first EXCEPT !.fetched = @ \o <<Fetch(endpoint, data)>>]

\* SyncClient.request(endpoint, data): the log call ahead of the try, then
\* the try and its catch.
request(endpoint, data, outcome, tracing) ==
    LET before == log([type |-> "request", endpoint |-> endpoint, payload |-> data],
                      tracing) IN
    IF before.raised
    THEN Raised(before.error, << >>)
    ELSE [CatchRequest(endpoint, TryRequest(endpoint, data, outcome, tracing), tracing)
            EXCEPT !.logged = before.written \o @]

syncSession(session, outcome, tracing) ==
    request("/sync/session", session, outcome, tracing)

syncMessage(message, outcome, tracing) ==
    request("/sync/message", message, outcome, tracing)

syncBatch(sessions, messages, outcome, tracing) ==
    request("/sync/batch", [sessions |-> sessions, messages |-> messages], outcome,
            tracing)

\* A call of one of the three sync operations on a client.
CallOn(req, outcome, tracing) ==
    IF req.op = "syncSession" THEN syncSession(req.payload, outcome, tracing)
    ELSE IF req.op = "syncMessage" THEN syncMessage(req.payload, outcome, tracing)
    ELSE syncBatch(req.sessions, req.messages, outcome, tracing)

\* ---------------------------------------------------------------- handlers
\* Each handler maps the orchestrator's state, the host context and what the
\* remote end does with each fetch to the new state, the requests it issues,
\* in order, the result of each and the number of fetch calls made.

\* The client of the handlers is taken with debug off.
Untraced == Tracing(FALSE, FALSE)

\* client.syncSession(...) / syncMessage(...) / syncBatch(...)
ClientCall(req, outcome) == CallOn(req, outcome, Untraced)

\* The awaited client calls of a handler, one after the other.
RECURSIVE AwaitAll(_, _)
AwaitAll(requests, outcomes) ==
    IF requests = << >> THEN << >>
    ELSE <<ClientCall(Head(requests), Head(outcomes))>>
           \o AwaitAll(Tail(requests), Tail(outcomes))

RECURSIVE FetchCount(_)
FetchCount(calls) ==
    IF calls = << >> THEN 0 ELSE Len(Head(calls).fetched) + FetchCount(Tail(calls))

\* The requests up to and including the first one that fails.
RECURSIVE UntilFailure(_, _)
UntilFailure(requests, outcomes) ==
    IF requests = << >> THEN << >>
    ELSE IF ClientCall(Head(requests), Head(outcomes)).value.success
         THEN <<Head(requests)>> \o UntilFailure(Tail(requests), Tail(outcomes))
         ELSE <<Head(requests)>>

HandlerResult(st, requests, calls) ==
    [state |-> st, reqs |-> requests,
     results |-> [i \in 1..Len(calls) |-> calls[i].value],
     fetches |-> FetchCount(calls)]

\* Faulty variant of Completed: a failed request ends the handler.
CompletedAbortOnFailure(st, requests, outcomes) ==
    LET issued == UntilFailure(requests, outcomes)
    IN  HandlerResult(st, issued, AwaitAll(issued, outcomes))

\* A handler that has issued its requests and ends in state st.
Completed(st, requests, outcomes) ==
    HandlerResult(st, requests, AwaitAll(requests, outcomes))

\* A handler that returns without a request.
NoRequests(st) == Completed(st, << >>, << >>)

\* pi.on("session_start")
OnSessionStart(sessionId, cwd, model, sessionName, branch, clock, outcomes) ==
    LET fresh0 == NewSessionState(sessionId, cwd, model, << >>, clock)
        restored == RestoreFromBranch(fresh0, 0, branch)
        st == RestoredMessageCount(restored.state, restored.msgCount)
    IN  Completed(st, <<SyncSession(transformSession(st, sessionName, FALSE, clock))>>,
                  outcomes)

\* const parentExternalId = state?.externalId
ForkParent(st) == IF st = Absent THEN << >> ELSE st.externalId

\* Faulty variant of OnSessionFork: the session with its totals is synced
\* first and the bare session last.
OnSessionForkTotalsFirst(old, sessionId, cwd, model, sessionName, branch, cfg, clock, outcomes) ==
    LET st0 == NewSessionState(sessionId, cwd, model, ForkParent(old), clock)
        first == SyncSession(transformSession(st0, sessionName, FALSE, clock))
        replay == ReplayFork(st0, 0, << >>, sessionId, branch, cfg.syncThinking)
        st == [replay.state EXCEPT !.messageCount = replay.msgCount]
        batch == IF Len(replay.messages) > 0
                 THEN <<SyncBatch(<< >>, [i \in 1..Len(replay.messages) |->
                                            WithoutCreatedAt(replay.messages[i])])>>
                 ELSE << >>
        last == SyncSession(transformSession(st, sessionName, FALSE, clock))
    IN  Completed(st, <<last>> \o batch \o <<first>>, outcomes)

\* pi.on("session_fork")
OnSessionFork(old, sessionId, cwd, model, sessionName, branch, cfg, clock, outcomes) ==
    LET st0 == NewSessionState(sessionId, cwd, model, ForkParent(old), clock)
        first == SyncSession(transformSession(st0, sessionName, FALSE, clock))
        replay == ReplayFork(st0, 0, << >>, sessionId, branch, cfg.syncThinking)
        st == [replay.state EXCEPT !.messageCount = replay.msgCount]
        batch == IF Len(replay.messages) > 0
                 THEN <<SyncBatch(<< >>, [i \in 1..Len(replay.messages) |-> WithoutCreatedAt(replay.messages[i])])>>
                 ELSE << >>
        last == SyncSession(transformSession(st, sessionName, FALSE, clock))
    IN  Completed(st, <<first>> \o batch \o <<last>>, outcomes)

\* Faulty variant of ShutdownIsFinal: the final-sync flag is not passed.
ShutdownIsFinalFalse == FALSE

ShutdownIsFinal == TRUE

\* Faulty variant of OnSessionShutdown: the guard on the state is missing and
\* a session without identity is synced.
OnSessionShutdownUnguarded(st, sessionName, clock, outcomes) ==
    Completed(Absent,
              <<SyncSession(IF st = Absent THEN [externalId |-> << >>, source |-> "pi"]
                            ELSE transformSession(st, sessionName, ShutdownIsFinal, clock))>>,
              outcomes)

\* Faulty variant of OnSessionShutdown: the state is kept when the final
\* sync fails.
OnSessionShutdownKeepOnFailure(st, sessionName, clock, outcomes) ==
    IF st = Absent THEN NoRequests(st)
    ELSE LET final == SyncSession(transformSession(st, sessionName, ShutdownIsFinal, clock))
         IN  Completed(IF ClientCall(final, outcomes[1]).value.success THEN Absent ELSE st,
                       <<final>>, outcomes)

\* pi.on("session_shutdown")
OnSessionShutdown(st, sessionName, clock, outcomes) ==
    IF st = Absent THEN NoRequests(st)
    ELSE Completed(Absent,
                   <<SyncSession(transformSession(st, sessionName, ShutdownIsFinal, clock))>>,
                   outcomes)

\* pi.on("model_select")
OnModelSelect(st, model) ==
    IF st = Absent THEN NoRequests(st)
    ELSE NoRequests(updateModel(st, model))

\* Faulty variant of OnInput: input injected by an extension is synced too.
OnInputAnySource(st, source, text, clock, outcomes) ==
    IF st = Absent THEN NoRequests(st)
    ELSE LET st1 == incrementMessageCount(st)
             messageId == generateMessageId(st1, "user")
         IN  Completed(st1,
                       <<SyncMessage(transformUserMessage(st1.externalId, messageId,
                                                          text, clock))>>,
                       outcomes)

\* Faulty variant of OnInput: the start of the session is moved to the time
\* of the input.
OnInputRestamped(st, source, text, clock, outcomes) ==
    IF st = Absent THEN NoRequests(st)
    ELSE IF source = "extension" THEN NoRequests(st)
    ELSE LET st1 == [incrementMessageCount(st) EXCEPT !.startedAt = clock]
             messageId == generateMessageId(st1, "user")
         IN  Completed(st1,
                       <<SyncMessage(transformUserMessage(st1.externalId, messageId,
                                                          text, clock))>>,
                       outcomes)

\* pi.on("input")
OnInput(st, source, text, clock, outcomes) ==
    IF st = Absent THEN NoRequests(st)
    ELSE IF source = "extension" THEN NoRequests(st)
    ELSE LET st1 == incrementMessageCount(st)
             messageId == generateMessageId(st1, "user")
         IN  Completed(st1,
                       <<SyncMessage(transformUserMessage(st1.externalId, messageId,
                                                          text, clock))>>,
                       outcomes)

\* Faulty variant of OnTurnEnd: the session is synced first, from the state
\* before the turn.
OnTurnEndSessionFirst(st, msg, eventToolResults, sessionName, cfg, clock, outcomes) ==
    IF st = Absent THEN NoRequests(st)
    ELSE IF msg.role # "assistant" THEN NoRequests(st)
    ELSE LET st1 == incrementMessageCount(st)
             messageId == generateMessageId(st1, "assistant")
             st2 == IF msg.usage # Absent THEN updateUsage(st1, msg.usage) ELSE st1
             st3 == IF countToolCalls(msg.content) > 0
                    THEN incrementToolCallCount(st2, countToolCalls(msg.content))
                    ELSE st2
             toolResults == IF cfg.syncToolCalls # FALSE THEN eventToolResults ELSE << >>
             payload == transformAssistantMessage(st3.externalId, messageId, msg,
                                                  cfg.syncThinking, toolResults)
         IN  Completed(st3,
                       <<SyncSession(transformSession(st, sessionName, FALSE, clock)),
                         SyncMessage(payload)>>,
                       outcomes)

\* pi.on("turn_end")
OnTurnEnd(st, msg, eventToolResults, sessionName, cfg, clock, outcomes) ==
    IF st = Absent THEN NoRequests(st)
    ELSE IF msg.role # "assistant" THEN NoRequests(st)
    ELSE LET st1 == incrementMessageCount(st)
             messageId == generateMessageId(st1, "assistant")
             st2 == IF msg.usage # Absent THEN updateUsage(st1, msg.usage) ELSE st1
             st3 == IF countToolCalls(msg.content) > 0
                    THEN incrementToolCallCount(st2, countToolCalls(msg.content))
                    ELSE st2
             toolResults == IF cfg.syncToolCalls # FALSE THEN eventToolResults ELSE << >>
             payload == transformAssistantMessage(st3.externalId, messageId, msg,
                                                  cfg.syncThinking, toolResults)
         IN  Completed(st3,
                       <<SyncMessage(payload),
                         SyncSession(transformSession(st3, sessionName, FALSE, clock))>>,
                       outcomes)

\* ------------------------------------------------- inputs of SpecTransform

ContentParts ==
    { TextContent(<< >>), TextContent(<<"a">>),
      ThinkingContent(<<"t">>), ThinkingContent(<<"u">>),
      ToolCallContent("tc1", "read", <<"f1">>),
      ToolCallContent("tc2", "bash", << >>) }

ToolResults ==
    { ToolResultMessageLike("read", <<TextContent(<<"r1">>)>>),
      ToolResultMessageLike("bash", <<TextContent(<<"r2">>), ImageContent("png"),
                                       TextContent(<<"r3">>)>>),
      ToolResultMessageLike("read", << >>) }

MessageUsages == {Absent, [input |-> 1, output |-> 2, cost |-> [total |-> 1]]}

\* ------------------------------------------------------ inputs of Spec

\* Session ids: nine characters, alike in the first eight.
SessionId(n) == [i \in 1..9 |-> IF i = 9 THEN ToString(n) ELSE "x"]

SessionIds == {SessionId(n) : n \in 1..MaxSessions}

SessionNames == {<< >>, <<"n">>}

Models == {[id |-> <<"m1">>, provider |-> <<"p1">>],
           [id |-> <<"m2">>, provider |-> <<"p2">>]}

Cwd == <<"/home", "proj">>

InputSources == {"interactive", "extension"}

\* The turns the host ends: the assistant message (its timestamp is set when
\* the turn ends) with its usage, and the tool results of the turn.
TurnShapes ==
    { [content |-> <<TextContent(<<"a">>)>>,
       usage |-> [input |-> 0, output |-> 1, cost |-> [total |-> 0]],
       toolResults |-> << >>],
      [content |-> <<ThinkingContent(<<"t">>),
                     ToolCallContent("tc1", "read", <<"f1">>)>>,
       usage |-> [input |-> 1, output |-> 1, cost |-> [total |-> 1]],
       toolResults |-> <<ToolResultMessageLike("read", <<TextContent(<<"r1">>)>>)>>],
      [content |-> <<TextContent(<<"a">>),
                     ToolCallContent("tc1", "read", <<"f1">>),
                     ToolCallContent("tc2", "bash", << >>)>>,
       usage |-> Absent,
       toolResults |-> <<ToolResultMessageLike("read", <<TextContent(<<"r1">>)>>)>>] }

\* loadConfig(): null, or the flags the handlers read.
Configs ==
    {Absent} \cup [autoSync : BOOLEAN, syncToolCalls : BOOLEAN, syncThinking : BOOLEAN,
                    debug : BOOLEAN]

\* The configurations of Spec: the handlers are registered, and each of the
\* two content flags is on in one and off in the other.
ActiveConfigs ==
    { [autoSync |-> TRUE, syncToolCalls |-> TRUE, syncThinking |-> FALSE,
       debug |-> FALSE],
      [autoSync |-> TRUE, syncToolCalls |-> FALSE, syncThinking |-> TRUE,
       debug |-> FALSE] }

\* One configuration with the handlers registered, debug mode off and on.
DebugConfigs ==
    { [autoSync |-> TRUE, syncToolCalls |-> TRUE, syncThinking |-> FALSE,
       debug |-> debug] : debug \in BOOLEAN }

\* The configurations with which the plugin returns before it registers a
\* handler.
InactiveConfigs ==
    { Absent,
      [autoSync |-> FALSE, syncToolCalls |-> TRUE, syncThinking |-> TRUE,
       debug |-> FALSE] }

\* What the remote end answers to a request that it accepts.
OkBody == <<"{", "\"ok\"", ":", "true", "}">>

OkResponse == Response(200, OkBody, Absent)

\* What the remote end may do with a request of a handler: accept it, reject
\* it, or be unreachable.
RemoteOutcomes ==
    { OkResponse,
      Response(401, <<"Unauthorized">>, Absent),
      FetchThrows(ErrorObject(<<"fetch failed">>)) }

\* No handler awaits more than three requests.
AllOk == [i \in 1..3 |-> OkResponse]

\* ------------------------------------------------- inputs of SpecClient

BodyTokens == {"{", "}", "true", "OK"}

Bodies == BoundedSeq(BodyTokens, MaxBody) \cup {OkBody}

Statuses == {200, 204, 401, 500}

ThrownValues ==
    {ErrorObject(<<"fetch failed">>), ErrorObject(<< >>), ThrownValue(<<"boom">>)}

ClientOutcomes ==
    {FetchThrows(e) : e \in ThrownValues}
      \cup {Response(st, b, Absent) : st \in Statuses, b \in Bodies}
      \cup {Response(st, << >>, ErrorObject(<<"terminated">>)) : st \in Statuses}

ClientRequests ==
    LET session == [externalId |-> SessionId(1), source |-> "pi", title |-> <<"Untitled">>]
        message == transformUserMessage(SessionId(1),
                                        SessionId(1) \o <<"-", "user", "-", "1">>,
                                        <<"hi">>, 0)
    IN  {SyncSession(session), SyncMessage(message),
         SyncBatch(<< >>, <<WithoutCreatedAt(message)>>)}

\* --------------------------------------------------------------- variables

VARIABLES
    tMessage, tToolResults, tIncludeThinking, tPayload,  \* SpecTransform
    config,         \* what loadConfig() returned
    state,          \* the orchestrator's SessionState, or Absent (null)
    now,            \* Date.now()
    hostSessionId,  \* ctx.sessionManager.getSessionId()
    hostName,       \* ctx.sessionManager.getSessionName()
    hostModel,      \* ctx.model
    files,          \* the branch of every session of the host
    known,          \* the session ids the host has used
    reqs,           \* the requests the last step issued, in order
    lastEvent,      \* the event of the last step
    sent,           \* every message payload sent so far: its ids and its route
    origin,         \* how the current SessionState was created
    steps,          \* the number of steps taken
    remote,         \* "ok": every request succeeds; "any": each may fail
    results,        \* the result of each request of the last step, in order
    fetches,        \* the number of fetch calls the last step made
    unaffected,     \* no step so far depended on the results of its requests
    terminated,     \* a session_shutdown has discarded the SessionState
    hasUI,          \* ctx.hasUI
    notified,       \* the ctx.ui.notify calls of the last step, in order
    status,         \* what ctx.ui.setStatus has last put into the status line
    suspended,      \* the handlers waiting at an await, with their locals
    resumed,        \* the handler the last step resumed, or Absent
    rejected,       \* the handlers that ended with an exception
    cRequest, cOutcome, cTracing, cAttempt                         \* SpecClient

tvars == <<tMessage, tToolResults, tIncludeThinking, tPayload>>

hvars == <<hostSessionId, hostName, hostModel, files, known, now>>

ovars == <<config, state, reqs, lastEvent, sent, origin, steps,
           remote, results, fetches, unaffected, terminated>>

cvars == <<cRequest, cOutcome, cTracing, cAttempt>>

uvars == <<hasUI, notified, status>>

ivars == <<suspended, resumed, rejected>>

vars == <<tvars, hvars, ovars, cvars, uvars, ivars>>

UiIdle == hasUI = FALSE /\ notified = << >> /\ status = << >>

NoneSuspended == suspended = {} /\ resumed = Absent /\ rejected = {}

ClientIdle ==
    cRequest = Absent /\ cOutcome = Absent /\ cTracing = Absent /\ cAttempt = Absent

\* ------------------------------------------------------------ SpecTransform

InitTransform ==
    /\ tMessage \in {AssistantMessageLike(c, 0, u) :
                        c \in BoundedSeq(ContentParts, MaxContent), u \in MessageUsages}
    /\ tToolResults \in BoundedSeq(ToolResults, MaxResults)
    /\ tIncludeThinking \in BOOLEAN
    /\ tPayload = Absent
    /\ config = Absent /\ state = Absent /\ now = 0
    /\ hostSessionId = SessionId(1) /\ hostName = << >> /\ hostModel = Absent
    /\ files = [sid \in SessionIds |-> << >>] /\ known = {SessionId(1)}
    /\ reqs = << >> /\ lastEvent = "init" /\ sent = << >> /\ origin = Absent
    /\ steps = 0
    /\ remote = "ok" /\ results = << >> /\ fetches = 0
    /\ unaffected = TRUE /\ terminated = FALSE
    /\ ClientIdle
    /\ UiIdle
    /\ NoneSuspended

ApplyTransformAssistantMessage ==
    /\ tPayload = Absent
    /\ tPayload' = transformAssistantMessage(SessionId(1),
                                             SessionId(1) \o <<"-", "assistant", "-", "1">>,
                                             tMessage, tIncludeThinking, tToolResults)
    /\ UNCHANGED <<tMessage, tToolResults, tIncludeThinking, hvars, ovars, cvars, uvars, ivars>>

NextTransform == ApplyTransformAssistantMessage

SpecTransform == InitTransform /\ [][NextTransform]_vars

\* --------------------------------------------------------------- SpecClient

InitClient ==
    /\ cRequest \in ClientRequests
    /\ cOutcome \in ClientOutcomes
    /\ cTracing \in {Tracing(debug, appendFails) : debug \in BOOLEAN, appendFails \in BOOLEAN}
    /\ cAttempt = Absent
    /\ tMessage = Absent /\ tToolResults = << >>
    /\ tIncludeThinking = FALSE /\ tPayload = Absent
    /\ config = Absent /\ state = Absent /\ now = 0
    /\ hostSessionId = SessionId(1) /\ hostName = << >> /\ hostModel = Absent
    /\ files = [sid \in SessionIds |-> << >>] /\ known = {SessionId(1)}
    /\ reqs = << >> /\ lastEvent = "init" /\ sent = << >> /\ origin = Absent
    /\ steps = 0
    /\ remote = "ok" /\ results = << >> /\ fetches = 0
    /\ unaffected = TRUE /\ terminated = FALSE
    /\ UiIdle
    /\ NoneSuspended

\* One sync operation of the client, from the call to its settlement.
ApplyRequest ==
    /\ cAttempt = Absent
    /\ cAttempt' = CallOn(cRequest, cOutcome, cTracing)
    /\ UNCHANGED <<cRequest, cOutcome, cTracing, tvars, hvars, ovars, uvars, ivars>>

NextClient == ApplyRequest

SpecClient == InitClient /\ [][NextClient]_vars

\* --------------------------------------------------------------------- Spec

\* Faulty variant of Registered: autoSync is not looked at.
RegisteredWhateverAutoSync == config # Absent

\* piOpensyncPlugin registers the lifecycle handlers only with a configuration
\* whose autoSync is not false.
Registered == config # Absent /\ config.autoSync # FALSE

Branch == files[hostSessionId]

MessageEntriesIn(entries) == {i \in 1..Len(entries) : IsMessageEntry(entries[i])}

SyncedIds(entries) ==
    {entries[i].syncedAs : i \in {k \in MessageEntriesIn(entries) :
                                    Len(entries[k].syncedAs) > 0}}

\* The message payloads a list of requests carries, as records of `sent`.
RECURSIVE SentBy(_)
SentBy(requests) ==
    IF requests = << >> THEN << >>
    ELSE LET r == Head(requests)
             Rec(via, p) == [sessionExternalId |-> p.sessionExternalId,
                             externalId |-> p.externalId, via |-> via]
             ViaBatch(p) == Rec("syncBatch", p)
         IN  (IF r.op = "syncMessage" THEN <<Rec("syncMessage", r.payload)>>
              ELSE IF r.op = "syncBatch" THEN [i \in 1..Len(r.messages) |-> ViaBatch(r.messages[i])]
              ELSE << >>) \o SentBy(Tail(requests))

\* The forked branch with each user or assistant entry marked with the id
\* under which the batch sent it.
RECURSIVE MarkSynced(_, _)
MarkSynced(entries, messages) ==
    IF entries = << >> THEN << >>
    ELSE LET entry == Head(entries) IN
         IF entry.type = "message" /\ entry.message.role \in {"user", "assistant"}
            /\ messages # << >>
         THEN <<[entry EXCEPT !.syncedAs = Head(messages).externalId]>>
                \o MarkSynced(Tail(entries), Tail(messages))
         ELSE <<(IF entry.type = "message" THEN [entry EXCEPT !.syncedAs = << >>]
                 ELSE entry)>>
                \o MarkSynced(Tail(entries), messages)

\* The host and the plugin before the first event.
InitHost ==
    /\ tMessage = Absent /\ tToolResults = << >>
    /\ tIncludeThinking = FALSE /\ tPayload = Absent
    /\ state = Absent
    /\ now = 0
    /\ hostSessionId = SessionId(1)
    /\ hostName = << >>
    /\ hostModel = Absent
    /\ files = [sid \in SessionIds |-> << >>]
    /\ known = {SessionId(1)}
    /\ reqs = << >>
    /\ lastEvent = "init"
    /\ sent = << >>
    /\ origin = Absent
    /\ steps = 0
    /\ results = << >>
    /\ fetches = 0
    /\ unaffected = TRUE
    /\ terminated = FALSE
    /\ notified = << >>
    /\ status = << >>
    /\ NoneSuspended
    /\ ClientIdle

\* The host runs without a UI and debug mode is off.
InitOrchestrator == InitHost /\ config \in ActiveConfigs /\ hasUI = FALSE

\* No configuration is loaded, or autoSync is off.
InitUnregistered ==
    InitHost /\ config \in InactiveConfigs /\ hasUI = FALSE /\ remote = "ok"

\* Debug mode on or off, with a UI or without, and requests that may fail.
InitNotify ==
    InitHost /\ config \in DebugConfigs /\ hasUI \in BOOLEAN /\ remote = "any"

\* Every request succeeds.
Init == InitOrchestrator /\ remote = "ok"

\* Each request may succeed or fail.
InitUnreliable == InitOrchestrator /\ remote = "any"

\* The steps a behaviour takes.
StepBudget == IF remote = "any" THEN MaxUnreliableSteps ELSE MaxSteps

\* What the remote end may do with the n requests of one handler.
OutcomeSeqs(n) ==
    IF remote = "any" THEN [1..n -> RemoteOutcomes] ELSE {[i \in 1..n |-> OkResponse]}

\* Faulty variant of notifyError: debug mode is not looked at.
notifyErrorWhateverDebug(cfg, ui, message) ==
    IF ui THEN <<(<<"[OpenSync] ">> \o message)>> ELSE << >>

\* notifyError(ctx, message): the ctx.ui.notify calls it makes.
notifyError(cfg, ui, message) ==
    IF cfg.debug /\ ui THEN <<(<<"[OpenSync] ">> \o message)>> ELSE << >>

\* What each handler says about a failed result, one text per awaited
\* request; session_fork and session_shutdown do not look at their results.
FailureTexts(event) ==
    IF event = "session_start" THEN <<"Failed to sync session: ">>
    ELSE IF event = "input" THEN <<"Failed to sync user message: ">>
    ELSE IF event = "turn_end"
         THEN <<"Failed to sync assistant message: ", "Failed to update session: ">>
    ELSE << >>

\* if (!result.success) notifyError(ctx, `...: ${result.error}`), for each
\* result of a handler from the k-th on.
RECURSIVE NotifiedFrom(_, _, _, _, _)
NotifiedFrom(k, texts, handlerResults, cfg, ui) ==
    IF k > Len(handlerResults) \/ k > Len(texts) THEN << >>
    ELSE (IF ~handlerResults[k].success
          THEN notifyError(cfg, ui, <<texts[k]>> \o handlerResults[k].error)
          ELSE << >>)
         \o NotifiedFrom(k + 1, texts, handlerResults, cfg, ui)

NotifiedBy(event, handlerResults, cfg, ui) ==
    NotifiedFrom(1, FailureTexts(event), handlerResults, cfg, ui)

\* The status line: session_start sets it when there is a UI, and sets it
\* again when its sync has failed.
StatusAfter(event, handlerResults, ui, before) ==
    IF event = "session_start" /\ ui
    THEN IF ~handlerResults[1].success THEN <<"● Sync error">> ELSE <<"● OpenSync">>
    ELSE before

\* The plugin's part of a step: the handler's result, or nothing at all when
\* no handler is registered.
Handled(event, result, resultAllOk) ==
    /\ steps < StepBudget
    /\ steps' = steps + 1
    /\ lastEvent' = event
    /\ IF Registered
       THEN \E r \in {result} :
              /\ state' = r.state
              /\ reqs' = r.reqs
              /\ results' = r.results
              /\ fetches' = r.fetches
              /\ sent' = sent \o SentBy(r.reqs)
              /\ unaffected' = (/\ unaffected
                                /\ \/ remote = "ok"
                                   \/ /\ r.state = resultAllOk.state
                                      /\ r.reqs = resultAllOk.reqs)
              /\ terminated' = (terminated
                                  \/ (event = "session_shutdown" /\ state # Absent))
              /\ notified' = NotifiedBy(event, r.results, config, hasUI)
              /\ status' = StatusAfter(event, r.results, hasUI, status)
       ELSE /\ state' = state
            /\ notified' = << >>
            /\ status' = status
            /\ reqs' = << >>
            /\ results' = << >>
            /\ fetches' = 0
            /\ sent' = sent
            /\ UNCHANGED <<unaffected, terminated>>
    /\ UNCHANGED <<config, remote, hasUI, tvars, cvars, ivars>>

\* The clock advances.
Tick ==
    /\ steps < StepBudget
    /\ steps' = steps + 1
    /\ now' = now + 1
    /\ lastEvent' = "tick"
    /\ reqs' = << >> /\ results' = << >> /\ fetches' = 0
    /\ notified' = << >>
    /\ UNCHANGED <<hasUI, status, ivars>>
    /\ UNCHANGED <<tvars, cvars, hostSessionId, hostName, hostModel, files, known,
                   config, state, sent, origin, remote, unaffected, terminated>>

\* The user names the session.
Rename(name) ==
    /\ steps < StepBudget
    /\ steps' = steps + 1
    /\ hostName' = name
    /\ hostName # name
    /\ lastEvent' = "rename"
    /\ reqs' = << >> /\ results' = << >> /\ fetches' = 0
    /\ notified' = << >>
    /\ UNCHANGED <<hasUI, status, ivars>>
    /\ UNCHANGED <<tvars, cvars, hostSessionId, hostModel, files, known, now,
                   config, state, sent, origin, remote, unaffected, terminated>>

\* The host loads session sid, one it knows, and fires session_start.
SessionStart(sid) ==
    /\ sid \in known
    /\ hostSessionId' = sid
    /\ known' = known
    /\ \E outcomes \in OutcomeSeqs(1) :
          Handled("session_start",
                  OnSessionStart(sid, Cwd, hostModel, hostName, files[sid], now, outcomes),
                  OnSessionStart(sid, Cwd, hostModel, hostName, files[sid], now, AllOk))
    /\ origin' = IF Registered
                 THEN [event |-> "session_start",
                       K |-> Cardinality(MessageEntriesIn(files[sid])),
                       priorIds |-> SyncedIds(files[sid]),
                       mark |-> Len(sent)]
                 ELSE origin
    /\ UNCHANGED <<hostName, hostModel, files, now>>

\* The host forks the current session before entry k + 1 into a new session,
\* sid, and fires session_fork.
SessionFork(sid, k) ==
    /\ sid = SessionId(Cardinality(known) + 1)
    /\ sid \in SessionIds
    /\ k \in 0..Len(Branch)
    /\ LET branch == SubSeq(Branch, 1, k)
           batch == SelectSeq(reqs', LAMBDA r : r.op = "syncBatch")
       IN  /\ \E outcomes \in OutcomeSeqs(3) :
                 Handled("session_fork",
                         OnSessionFork(state, sid, Cwd, hostModel, hostName, branch,
                                       config, now, outcomes),
                         OnSessionFork(state, sid, Cwd, hostModel, hostName, branch,
                                       config, now, AllOk))
           /\ files' = [files EXCEPT ![sid] =
                          IF Registered
                          THEN MarkSynced(branch, IF batch = << >> THEN << >>
                                                  ELSE batch[1].messages)
                          ELSE MarkSynced(branch, << >>)]
    /\ hostSessionId' = sid
    /\ known' = known \cup {sid}
    /\ origin' = IF Registered
                 THEN [event |-> "session_fork",
                       K |-> Cardinality(MessageEntriesIn(SubSeq(Branch, 1, k))),
                       priorIds |-> {},
                       mark |-> Len(sent)]
                 ELSE origin
    /\ UNCHANGED <<hostName, hostModel, now>>

\* The host exits and fires session_shutdown.
SessionShutdown ==
    /\ \E outcomes \in OutcomeSeqs(1) :
          Handled("session_shutdown",
                  OnSessionShutdown(state, hostName, now, outcomes),
                  OnSessionShutdown(state, hostName, now, AllOk))
    /\ UNCHANGED <<hvars, origin>>

\* The user selects a model: the host records it and fires model_select.
ModelSelect(model) ==
    /\ hostModel # model
    /\ hostModel' = model
    /\ files' = [files EXCEPT ![hostSessionId] = Append(@, ModelChangeEntry)]
    /\ Handled("model_select", OnModelSelect(state, model), OnModelSelect(state, model))
    /\ UNCHANGED <<hostSessionId, hostName, known, now, origin>>

\* The input event with its source.
InputEvent(source) == IF source = "extension" THEN "input(extension)" ELSE "input"

\* Input arrives, from the user or from an extension; the host fires input
\* and records the user message.
Input(source) ==
    /\ LET ids == SentBy(reqs')
       IN  /\ \E outcomes \in OutcomeSeqs(1) :
                 Handled(InputEvent(source),
                         OnInput(state, source, <<"hi">>, now, outcomes),
                         OnInput(state, source, <<"hi">>, now, AllOk))
           /\ files' = [files EXCEPT ![hostSessionId] =
                          Append(@, MessageEntry(UserMessage(<<"hi">>, 0),
                                                 IF ids = << >> THEN << >>
                                                 ELSE ids[1].externalId))]
    /\ UNCHANGED <<hostSessionId, hostName, hostModel, known, now, origin>>

ToolResultEntry(toolResult) == MessageEntry(toolResult, << >>)

\* An assistant turn ends: the host records the assistant message and the
\* tool results of the turn and fires turn_end.
TurnEnd(shape) ==
    /\ LET msg == AssistantMessageLike(shape.content, 0, shape.usage)
           ids == SentBy(reqs')
       IN  /\ \E outcomes \in OutcomeSeqs(2) :
                 Handled("turn_end",
                         OnTurnEnd(state, msg, shape.toolResults, hostName, config, now,
                                   outcomes),
                         OnTurnEnd(state, msg, shape.toolResults, hostName, config, now,
                                   AllOk))
           /\ files' = [files EXCEPT ![hostSessionId] =
                          Append(@, MessageEntry(msg, IF ids = << >> THEN << >>
                                                      ELSE ids[1].externalId))
                            \o [i \in 1..Len(shape.toolResults) |-> ToolResultEntry(shape.toolResults[i])]]
    /\ UNCHANGED <<hostSessionId, hostName, hostModel, known, now, origin>>

\* A turn ends with a message that is no assistant message.
TurnEndOther ==
    /\ Handled("turn_end",
               OnTurnEnd(state, CustomMessage, << >>, hostName, config, now, AllOk),
               OnTurnEnd(state, CustomMessage, << >>, hostName, config, now, AllOk))
    /\ files' = [files EXCEPT ![hostSessionId] =
                   Append(@, MessageEntry(CustomMessage, << >>))]
    /\ UNCHANGED <<hostSessionId, hostName, hostModel, known, now, origin>>

Next ==
    \/ Tick
    \/ \E name \in SessionNames : Rename(name)
    \/ \E sid \in SessionIds : SessionStart(sid)
    \/ \E sid \in SessionIds : \E k \in 0..MaxSteps : SessionFork(sid, k)
    \/ SessionShutdown
    \/ \E model \in Models : ModelSelect(model)
    \/ \E source \in InputSources : Input(source)
    \/ \E shape \in TurnShapes : TurnEnd(shape)
    \/ TurnEndOther

Spec == Init /\ [][Next]_vars

SpecUnreliable == InitUnreliable /\ [][Next]_vars

SpecUnregistered == InitUnregistered /\ [][Next]_vars

SpecNotify == InitNotify /\ [][Next]_vars

\* ----------------------------------------------------- overlapping handlers
\* Every handler is an async function: it runs up to an await of a client
\* call, and goes on when the call has settled.  Here the host may fire an
\* event while handlers wait, and the waiting handlers go on in any order.
\* `state` is the variable of the enclosing function, read anew after each
\* await; what a handler holds in a const is kept in its locals.

\* What reading a property of null raises.
TypeErrorOnNull == ErrorObject(<<"Cannot read properties of null">>)

\* A stretch of a handler between two awaits: the state it leaves, the call
\* it awaits, and where it goes on (Absent when the handler has returned).
Stretch(st, awaited, then) ==
    [state |-> st, reqs |-> awaited, then |-> then, threw |-> FALSE]

\* The stretch ends with an exception that nothing catches.
Throws(st, error) ==
    [state |-> st, reqs |-> << >>, then |-> Absent, threw |-> TRUE, error |-> error]


\* session_start up to await client.syncSession(payload).
SessionStartBegin(sessionId, cwd, model, sessionName, branch, clock) ==
    LET fresh0 == NewSessionState(sessionId, cwd, model, << >>, clock)
        restored == RestoreFromBranch(fresh0, 0, branch)
        st == RestoredMessageCount(restored.state, restored.msgCount)
    IN  Stretch(st, <<SyncSession(transformSession(st, sessionName, FALSE, clock))>>,
                [handler |-> "session_start", pc |-> 1, locals |-> << >>])

\* session_fork up to the first await client.syncSession(payload).
SessionForkBegin(old, sessionId, cwd, model, sessionName, clock) ==
    LET st0 == NewSessionState(sessionId, cwd, model, ForkParent(old), clock)
    IN  Stretch(st0, <<SyncSession(transformSession(st0, sessionName, FALSE, clock))>>,
                [handler |-> "session_fork", pc |-> 1, locals |-> [sessionId |-> sessionId]])

\* session_fork from the batch on: const updatedPayload =
\* transformSession(state, ...) and the last await.
SessionForkAfterBatch(st, sessionName, clock) ==
    IF st = Absent THEN Throws(st, TypeErrorOnNull)
    ELSE Stretch(st, <<SyncSession(transformSession(st, sessionName, FALSE, clock))>>,
                 [handler |-> "session_fork", pc |-> 3, locals |-> << >>])

\* session_fork after its first await: the loop over the branch as it is
\* now, state.messageCount = msgCount, and the batch if there is one.
SessionForkAfterFirst(st, locals, sessionName, branch, cfg, clock) ==
    IF st = Absent THEN Throws(st, TypeErrorOnNull)
    ELSE LET replay == ReplayFork(st, 0, << >>, locals.sessionId, branch, cfg.syncThinking)
             st1 == [replay.state EXCEPT !.messageCount = replay.msgCount]
         IN  IF Len(replay.messages) > 0
             THEN Stretch(st1,
                          <<SyncBatch(<< >>, [i \in 1..Len(replay.messages) |->
                                                WithoutCreatedAt(replay.messages[i])])>>,
                          [handler |-> "session_fork", pc |-> 2, locals |-> << >>])
             ELSE SessionForkAfterBatch(st1, sessionName, clock)

\* session_shutdown up to await client.syncSession(payload).
SessionShutdownBegin(st, sessionName, clock) ==
    IF st = Absent THEN Stretch(st, << >>, Absent)
    ELSE Stretch(st, <<SyncSession(transformSession(st, sessionName, ShutdownIsFinal, clock))>>,
                 [handler |-> "session_shutdown", pc |-> 1, locals |-> << >>])

\* Faulty variant of InputBegin: the counter is not incremented before the
\* await.
InputBeginLateIncrement(st, source, text, clock) ==
    IF st = Absent THEN Stretch(st, << >>, Absent)
    ELSE IF source = "extension" THEN Stretch(st, << >>, Absent)
    ELSE LET messageId == generateMessageId(incrementMessageCount(st), "user")
         IN  Stretch(st,
                     <<SyncMessage(transformUserMessage(st.externalId, messageId,
                                                        text, clock))>>,
                     [handler |-> "input", pc |-> 1, locals |-> << >>])

\* input up to await client.syncMessage(payload).
InputBegin(st, source, text, clock) ==
    IF st = Absent THEN Stretch(st, << >>, Absent)
    ELSE IF source = "extension" THEN Stretch(st, << >>, Absent)
    ELSE LET st1 == incrementMessageCount(st)
             messageId == generateMessageId(st1, "user")
         IN  Stretch(st1,
                     <<SyncMessage(transformUserMessage(st1.externalId, messageId,
                                                        text, clock))>>,
                     [handler |-> "input", pc |-> 1, locals |-> << >>])

\* turn_end up to await client.syncMessage(payload).
TurnEndBegin(st, msg, eventToolResults, cfg) ==
    IF st = Absent THEN Stretch(st, << >>, Absent)
    ELSE IF msg.role # "assistant" THEN Stretch(st, << >>, Absent)
    ELSE LET st1 == incrementMessageCount(st)
             messageId == generateMessageId(st1, "assistant")
             st2 == IF msg.usage # Absent THEN updateUsage(st1, msg.usage) ELSE st1
             st3 == IF countToolCalls(msg.content) > 0
                    THEN incrementToolCallCount(st2, countToolCalls(msg.content))
                    ELSE st2
             toolResults == IF cfg.syncToolCalls # FALSE THEN eventToolResults ELSE << >>
             payload == transformAssistantMessage(st3.externalId, messageId, msg,
                                                  cfg.syncThinking, toolResults)
         IN  Stretch(st3, <<SyncMessage(payload)>>,
                     [handler |-> "turn_end", pc |-> 1, locals |-> [payload |-> payload]])

\* turn_end after the message is synced: transformSession(state, ...) and
\* await client.syncSession(sessionPayload).
TurnEndAfterMessage(st, sessionName, clock) ==
    IF st = Absent THEN Throws(st, TypeErrorOnNull)
    ELSE Stretch(st, <<SyncSession(transformSession(st, sessionName, FALSE, clock))>>,
                 [handler |-> "turn_end", pc |-> 2, locals |-> << >>])

\* The stretch of a waiting handler h from its await on.
GoOn(h, st, sessionName, branch, cfg, clock) ==
    IF h.handler = "session_fork" /\ h.pc = 1
    THEN SessionForkAfterFirst(st, h.locals, sessionName, branch, cfg, clock)
    ELSE IF h.handler = "session_fork" /\ h.pc = 2
    THEN SessionForkAfterBatch(st, sessionName, clock)
    ELSE IF h.handler = "session_shutdown" /\ h.pc = 1
    THEN Stretch(Absent, << >>, Absent)
    ELSE IF h.handler = "turn_end" /\ h.pc = 1
    THEN TurnEndAfterMessage(st, sessionName, clock)
    ELSE Stretch(st, << >>, Absent)

\* The turn the host ends while handlers overlap.
OverlapTurn ==
    [content |-> <<TextContent(<<"a">>), ToolCallContent("tc1", "read", <<"f1">>)>>,
     usage |-> [input |-> 1, output |-> 1, cost |-> [total |-> 1]],
     toolResults |-> <<ToolResultMessageLike("read", <<TextContent(<<"r1">>)>>)>>]

InitOverlap == InitOrchestrator /\ remote = "ok"

\* One stretch of handler h (its number, and where it came from when it is
\* resumed) has run.
Ran(event, h, from, stretch) ==
    /\ steps < MaxOverlapSteps
    /\ steps' = steps + 1
    /\ lastEvent' = event
    /\ state' = stretch.state
    /\ reqs' = stretch.reqs
    /\ sent' = sent \o SentBy(stretch.reqs)
    /\ suspended' = (suspended \ {from})
                       \cup (IF stretch.then = Absent THEN {}
                             ELSE {stretch.then @@ [h |-> h]})
    /\ resumed' = from
    /\ rejected' = IF stretch.threw
                   THEN rejected \cup {[h |-> h, handler |-> from.handler, pc |-> from.pc]}
                   ELSE rejected
    /\ results' = << >>
    /\ fetches' = Len(stretch.reqs)
    /\ notified' = << >>
    /\ UNCHANGED <<config, remote, origin, unaffected, terminated, hasUI, status, now,
                   hostName, hostModel, tvars, cvars>>

OverlapStart(sid) ==
    /\ sid \in known
    /\ hostSessionId' = sid
    /\ Ran("session_start", steps, Absent,
           SessionStartBegin(sid, Cwd, hostModel, hostName, files[sid], now))
    /\ UNCHANGED <<files, known>>

OverlapFork(sid, k) ==
    /\ sid = SessionId(Cardinality(known) + 1)
    /\ sid \in SessionIds
    /\ k \in 0..Len(Branch)
    /\ files' = [files EXCEPT ![sid] = SubSeq(Branch, 1, k)]
    /\ hostSessionId' = sid
    /\ known' = known \cup {sid}
    /\ Ran("session_fork", steps, Absent,
           SessionForkBegin(state, sid, Cwd, hostModel, hostName, now))

OverlapShutdown ==
    /\ Ran("session_shutdown", steps, Absent, SessionShutdownBegin(state, hostName, now))
    /\ UNCHANGED <<hostSessionId, files, known>>

OverlapInput ==
    /\ Ran("input", steps, Absent, InputBegin(state, "interactive", <<"hi">>, now))
    /\ files' = [files EXCEPT ![hostSessionId] =
                   Append(@, MessageEntry(UserMessage(<<"hi">>, 0), << >>))]
    /\ UNCHANGED <<hostSessionId, known>>

OverlapTurnEnd ==
    /\ LET msg == AssistantMessageLike(OverlapTurn.content, 0, OverlapTurn.usage)
       IN  /\ Ran("turn_end", steps, Absent,
                  TurnEndBegin(state, msg, OverlapTurn.toolResults, config))
           /\ files' = [files EXCEPT ![hostSessionId] =
                          Append(@, MessageEntry(msg, << >>))
                            \o [i \in 1..Len(OverlapTurn.toolResults) |->
                                   ToolResultEntry(OverlapTurn.toolResults[i])]]
    /\ UNCHANGED <<hostSessionId, known>>

\* The call a handler waits for has settled and the handler goes on.
OverlapResume ==
    /\ \E h \in suspended :
          Ran("resume", h.h, h, GoOn(h, state, hostName, Branch, config, now))
    /\ UNCHANGED <<hostSessionId, files, known>>

NextOverlap ==
    \/ \E sid \in SessionIds : OverlapStart(sid)
    \/ \E sid \in SessionIds : \E k \in 0..MaxOverlapSteps : OverlapFork(sid, k)
    \/ OverlapShutdown
    \/ OverlapInput
    \/ OverlapTurnEnd
    \/ OverlapResume

SpecOverlap == InitOverlap /\ [][NextOverlap]_vars

\* ------------------------------------------------ claims on the transform

PartsOf(payload) == IF "parts" \in DOMAIN payload THEN payload.parts ELSE << >>

IsCallPart(q) == q.type = "tool-call"

IsResultPart(q) == q.type = "tool-result"

\* How many tool-call parts parts[1..j] holds.
CallsUpTo(parts, j) == Cardinality({i \in 1..j : IsCallPart(parts[i])})

ResultText(toolResult) == Join(TextsOf(toolResult.content), NL)

InterleavedIn(parts, content, toolResults) ==
    LET calls == SelectSeq(content, IsToolCall) IN
    /\ CallsUpTo(parts, Len(parts)) = Len(calls)
    /\ \A j \in 1..Len(parts) :
          /\ IsCallPart(parts[j]) =>
                LET k == CallsUpTo(parts, j) IN
                /\ parts[j].content = [toolName |-> calls[k].name,
                                       args |-> calls[k].arguments]
                /\ k <= Len(toolResults) =>
                      /\ j < Len(parts)
                      /\ IsResultPart(parts[j + 1])
                      /\ parts[j + 1].content = ResultText(toolResults[k])
          /\ IsResultPart(parts[j]) =>
                /\ j > 1
                /\ IsCallPart(parts[j - 1])
                /\ CallsUpTo(parts, j) <= Len(toolResults)
                /\ parts[j].content = ResultText(toolResults[CallsUpTo(parts, j)])

\* C1: the tool parts of an assistant payload are interleaved: the i-th
\* tool-call part is built from the i-th ToolCall of the content and, when
\* i <= |R|, is immediately followed by the tool-result part built from R[i];
\* every tool-result part directly follows its own tool-call part.
C1_Interleaved ==
    tPayload # Absent =>
        InterleavedIn(PartsOf(tPayload), tMessage.content, tToolResults)

\* Three calls and two results: call, result, call, result, call.
C1_Witness ==
    /\ tPayload # Absent
    /\ countToolCalls(tMessage.content) = 3
    /\ Len(tToolResults) = 2
    /\ tToolResults[1] # tToolResults[2]
    /\ Len(PartsOf(tPayload)) = 5

StructuredContentPresent ==
    \/ \E i \in 1..Len(tMessage.content) : IsToolCall(tMessage.content[i])
    \/ tIncludeThinking /\ \E i \in 1..Len(tMessage.content) : IsThinking(tMessage.content[i])
    \/ Len(tToolResults) > 0

TextPartFirst(payload) ==
    /\ Len(PartsOf(payload)) > 0
    /\ PartsOf(payload)[1].type = "text"
    /\ "textContent" \in DOMAIN payload
    /\ PartsOf(payload)[1].content = payload.textContent

C10_NoEmptyParts ==
    tPayload # Absent =>
        /\ "parts" \in DOMAIN tPayload => Len(tPayload.parts) > 0
        /\ ~StructuredContentPresent => "parts" \notin DOMAIN tPayload

\* A turn of plain text (and a thinking entry that is not included).
C10_Witness ==
    /\ tPayload # Absent
    /\ "textContent" \in DOMAIN tPayload
    /\ "parts" \notin DOMAIN tPayload
    /\ \E i \in 1..Len(tMessage.content) : IsThinking(tMessage.content[i])

IsThinkingPart(q) == q.type = "thinking"

\* The thinking texts of a content list, as the thinking parts that carry them.
ThinkingEntriesAsParts(content) ==
    LET entries == SelectSeq(content, IsThinking)
    IN  [i \in 1..Len(entries) |-> [type |-> "thinking", content |-> entries[i].thinking]]

\* C11: with thinking-inclusion on, the thinking parts of the payload are the
\* Thinking entries of the content, one part per entry and in the original
\* order, and no tool-call or tool-result part comes after a thinking part.
C11_ThinkingAfterTools ==
    (tPayload # Absent /\ tIncludeThinking) =>
        LET parts == PartsOf(tPayload) IN
        /\ SelectSeq(parts, IsThinkingPart) = ThinkingEntriesAsParts(tMessage.content)
        /\ \A i \in 1..Len(parts) : \A j \in 1..Len(parts) :
              (i < j /\ IsThinkingPart(parts[i])) =>
                  ~(IsCallPart(parts[j]) \/ IsResultPart(parts[j]))

\* Two different Thinking entries, the first ahead of a tool call that has a
\* result: the parts are text, call, result, thinking, thinking.
C11_Witness ==
    /\ tPayload # Absent
    /\ tIncludeThinking
    /\ Len(tMessage.content) = 3
    /\ IsThinking(tMessage.content[1])
    /\ IsToolCall(tMessage.content[2])
    /\ IsThinking(tMessage.content[3])
    /\ tMessage.content[1] # tMessage.content[3]
    /\ Len(tToolResults) = 1
    /\ Len(PartsOf(tPayload)) = 5
    /\ IsCallPart(PartsOf(tPayload)[2])
    /\ IsResultPart(PartsOf(tPayload)[3])
    /\ IsThinkingPart(PartsOf(tPayload)[4])
    /\ IsThinkingPart(PartsOf(tPayload)[5])

\* ------------------------------------------------ claims on the orchestrator

SessionPayloadsOf(requests) ==
    {requests[i].payload : i \in {k \in 1..Len(requests) : requests[k].op = "syncSession"}}

\* C3 (as claimed): no two message payloads sent for the same session, by
\* syncMessage or inside a fork's syncBatch, carry the same externalId.
C3_UniqueMessageIds ==
    \A i, j \in 1..Len(sent) :
        i < j => ~(/\ sent[i].sessionExternalId = sent[j].sessionExternalId
                   /\ sent[i].externalId = sent[j].externalId)

\* The SessionState was created by session_start over a branch with no message.
StartedEmpty ==
    /\ state # Absent
    /\ origin # Absent
    /\ origin.event = "session_start"
    /\ origin.K = 0

SyncMessagesSince(mark) ==
    Cardinality({i \in (mark + 1)..Len(sent) : sent[i].via = "syncMessage"})

CountMatchesSynced ==
    StartedEmpty => state.messageCount = SyncMessagesSince(origin.mark)

\* C4: in a session started over an empty history, messageCount equals the
\* number of syncMessage requests issued since, and no event that keeps the
\* SessionState decreases its messageCount.
C4_CountEqualsSynced ==
    [][ /\ CountMatchesSynced'
        /\ (/\ state # Absent
            /\ state' # Absent
            /\ lastEvent' \notin {"session_start", "session_fork"})
              => state'.messageCount >= state.messageCount ]_vars

\* A user message and an assistant turn synced in a session started empty.
C4_Witness ==
    /\ StartedEmpty
    /\ state.messageCount = 2
    /\ lastEvent = "turn_end"
    /\ Len(reqs) = 2

NameOrUntitled(name) == IF Len(name) > 0 THEN name ELSE <<"Untitled">>

\* The SessionState the requests of a step were built from.
SyncedState(old, new) == IF new # Absent THEN new ELSE old

EndsWith(str, suffix) ==
    /\ Len(str) >= Len(suffix)
    /\ SubSeq(str, Len(str) - Len(suffix) + 1, Len(str)) = suffix

\* C7: every session payload sent has a title that is not empty: the session
\* name, or "Untitled" when there is none, after the fork marker when the
\* state has a parent and alone when it has none.
C7_TitleOnEverySync ==
    [][ \A payload \in SessionPayloadsOf(reqs') :
            LET st == SyncedState(state, state') IN
            /\ "title" \in DOMAIN payload
            /\ Len(payload.title) > 0
            /\ EndsWith(payload.title, NameOrUntitled(hostName'))
            /\ IF Len(st.parentExternalId) > 0
               THEN Len(payload.title) > Len(NameOrUntitled(hostName'))
                    /\ payload.title[1] = "[Fork::"
               ELSE payload.title = NameOrUntitled(hostName') ]_vars

\* The final sync of a forked session that has a name.
C7_Witness ==
    /\ lastEvent = "session_shutdown"
    /\ Len(reqs) = 1
    /\ origin # Absent
    /\ origin.event = "session_fork"
    /\ Len(hostName) > 0
    /\ reqs[1].payload.title[1] = "[Fork::"

CountFields == {"promptTokens", "completionTokens", "cost", "messageCount"}

C9_DurationOnlyOnShutdown ==
    [][ \A payload \in SessionPayloadsOf(reqs') :
            /\ "durationMs" \in DOMAIN payload <=> lastEvent' = "session_shutdown"
            /\ "durationMs" \in DOMAIN payload =>
                  /\ state # Absent
                  /\ state' = Absent
                  /\ payload.durationMs = now' - state.startedAt ]_vars

\* A shutdown after the clock has advanced since the session started.
C9_Witness ==
    /\ lastEvent = "session_shutdown"
    /\ Len(reqs) = 1
    /\ "durationMs" \in DOMAIN reqs[1].payload
    /\ reqs[1].payload.durationMs = 1
    /\ now = 2

\* ---------------------------------------------------- claims on the client

\* The failure result that carries an exception's message.
FailureOf(error) ==
    [success |-> FALSE, error |-> IF error.isError THEN error.message ELSE error.value]

\* C12: a sync operation never throws: a response that is not 2xx yields
\* {success: false, error: "<status>: <body text>"}, and an exception of the
\* transport (fetch rejecting, or the body failing to arrive) yields
\* {success: false, error: <the exception's message>}.
C12_NeverThrows ==
    cAttempt # Absent =>
        /\ ~cAttempt.raised
        /\ cOutcome.kind = "throws" => cAttempt.value = FailureOf(cOutcome.error)
        /\ (cOutcome.kind = "response" /\ cOutcome.bodyError # Absent) =>
              cAttempt.value = FailureOf(cOutcome.bodyError)
        /\ (/\ cOutcome.kind = "response"
            /\ cOutcome.bodyError = Absent
            /\ (cOutcome.status < 200 \/ cOutcome.status > 299)) =>
              cAttempt.value = [success |-> FALSE,
                                error |-> <<ToString(cOutcome.status), ":", " ">>
                                            \o cOutcome.body]

\* syncBatch answered with 401 and a body: the error is "401: <body>".
C12_Witness ==
    /\ cAttempt # Absent
    /\ cRequest.op = "syncBatch"
    /\ cOutcome.kind = "response"
    /\ cOutcome.status = 401
    /\ cOutcome.body = <<"OK">>
    /\ cAttempt.value = [success |-> FALSE, error |-> <<"401", ":", " ", "OK">>]

\* C13 (as claimed): every 2xx response yields a success result, whatever
\* its body.
C13_SuccessOn2xx ==
    (/\ cAttempt # Absent
     /\ cOutcome.kind = "response"
     /\ cOutcome.bodyError = Absent
     /\ cOutcome.status >= 200 /\ cOutcome.status <= 299) =>
        cAttempt.value.success

\* ------------------------------------------- claims on failing requests

\* The entries the step appended to the branch of the current session.
AppendedEntries ==
    LET old == files[hostSessionId]
        new == files'[hostSessionId]
    IN  IF hostSessionId' = hostSessionId /\ Len(new) >= Len(old)
        THEN SubSeq(new, Len(old) + 1, Len(new)) ELSE << >>

\* The step is the end of an assistant turn.
AssistantTurnEnds ==
    /\ lastEvent' = "turn_end"
    /\ \E i \in 1..Len(AppendedEntries) :
          /\ AppendedEntries[i].type = "message"
          /\ AppendedEntries[i].message.role = "assistant"

\* The branch of the session after the step holds a user or assistant message.
BackfillNonEmpty ==
    \E i \in 1..Len(files'[hostSessionId']) :
       /\ files'[hostSessionId'][i].type = "message"
       /\ files'[hostSessionId'][i].message.role \in {"user", "assistant"}

OpsOf(requests) == [i \in 1..Len(requests) |-> requests[i].op]

\* C14: every request of a handler makes exactly one fetch, whether it
\* succeeds or fails, and the requests of a step are: one session request on
\* session_start, one message request on a human input, a message and a
\* session request on the end of an assistant turn, one session request on
\* session_shutdown (the last three with an active state), none on
\* model_select, and on session_fork a session request, a batch request only
\* when the backfilled history is not empty, and a session request.
C14_OneRequestEach ==
    [][ /\ fetches' = Len(reqs')
        /\ Len(results') = Len(reqs')
        /\ lastEvent' = "session_start" => OpsOf(reqs') = <<"syncSession">>
        /\ (lastEvent' = "input" /\ state # Absent) => OpsOf(reqs') = <<"syncMessage">>
        /\ (AssistantTurnEnds /\ state # Absent) =>
              OpsOf(reqs') = <<"syncMessage", "syncSession">>
        /\ (lastEvent' = "session_shutdown" /\ state # Absent) =>
              OpsOf(reqs') = <<"syncSession">>
        /\ lastEvent' = "model_select" => reqs' = << >>
        /\ lastEvent' = "session_fork" =>
              OpsOf(reqs') = IF BackfillNonEmpty
                             THEN <<"syncSession", "syncBatch", "syncSession">>
                             ELSE <<"syncSession", "syncSession">>
      ]_vars

\* An assistant turn whose message request fails and whose session request
\* is sent all the same, each with one fetch.
C14_Witness ==
    /\ lastEvent = "turn_end"
    /\ OpsOf(reqs) = <<"syncMessage", "syncSession">>
    /\ ~results[1].success
    /\ results[2].success
    /\ fetches = 2

\* C15: the SessionState reached and the payloads sent by every handler are
\* those of the same handler with all its requests succeeding.
C15_FailuresChangeNothing == unaffected

\* Both requests of an assistant turn fail, after a session_start whose
\* request failed: the turn is counted and both payloads are sent.
C15_Witness ==
    /\ remote = "any"
    /\ steps = 2
    /\ lastEvent = "turn_end"
    /\ Len(results) = 2
    /\ ~results[1].success /\ ~results[2].success
    /\ state # Absent
    /\ state.messageCount = 1
    /\ state.completionTokens = 1

\* --------------------------------------------------- claims on the guards

\* C16: with no SessionState, an input, turn_end, model_select or
\* session_shutdown event sends no request and leaves the state absent.
C16_NoStateNoOp ==
    [][ (/\ state = Absent
         /\ lastEvent' \in {"input", "input(extension)", "turn_end",
                            "model_select", "session_shutdown"}) =>
            /\ state' = Absent
            /\ reqs' = << >>
            /\ fetches' = 0
            /\ sent' = sent
      ]_vars

\* An assistant turn has ended with no SessionState.
C16_Witness ==
    /\ lastEvent = "turn_end"
    /\ state = Absent
    /\ origin = Absent
    /\ \E i \in 1..Len(Branch) :
          Branch[i].type = "message" /\ Branch[i].message.role = "assistant"
    /\ reqs = << >>

\* C17 (as claimed): once a session_shutdown has discarded the state, no
\* event creates a SessionState or sends a request.
C17_NothingAfterShutdown ==
    [][ terminated => (state' = Absent /\ reqs' = << >>) ]_vars

\* C18 (as claimed): a session_fork with no session_start or fork handled
\* before it creates no SessionState and sends no request.
C18_ForkUninitializedNoOp ==
    [][ (origin = Absent /\ state = Absent /\ lastEvent' = "session_fork") =>
            (state' = Absent /\ reqs' = << >>) ]_vars

\* C19: an input event of source "extension" leaves the SessionState as it
\* is and sends no request.
C19_ExtensionInputIgnored ==
    [][ lastEvent' = "input(extension)" =>
            /\ state' = state
            /\ reqs' = << >>
            /\ fetches' = 0
            /\ sent' = sent
      ]_vars

\* A human input and an extension input on an active session: one message
\* is counted.
C19_Witness ==
    /\ lastEvent = "input(extension)"
    /\ state # Absent
    /\ state.messageCount = 1
    /\ Len(Branch) = 2

\* C20: model_select on an active session sets model and provider and
\* nothing else, and sends no request; every session payload sent while the
\* host has a model carries that model and provider.
C20_ModelSelectOnlyModel ==
    [][ /\ (state # Absent /\ lastEvent' = "model_select") =>
              /\ reqs' = << >>
              /\ fetches' = 0
              /\ state' = [state EXCEPT !.model = hostModel'.id,
                                        !.provider = hostModel'.provider]
              /\ hostModel' # hostModel
        /\ hostModel' # Absent =>
              \A payload \in SessionPayloadsOf(reqs') :
                 /\ "model" \in DOMAIN payload /\ payload.model = hostModel'.id
                 /\ "provider" \in DOMAIN payload
                 /\ payload.provider = hostModel'.provider
      ]_vars

\* The model is changed on an active session and the turn that
\* follows syncs the session with the second model and the counters of the
\* turn.
C20_Witness ==
    /\ lastEvent = "turn_end"
    /\ hostModel # Absent
    /\ hostModel.id = <<"m2">>
    /\ state # Absent
    /\ state.startedAt = 0
    /\ state.messageCount = 1
    /\ \E payload \in SessionPayloadsOf(reqs) :
          payload.model = <<"m2">> /\ payload.provider = <<"p2">>

\* ------------------------------------------- claims on the order of syncs

\* Two payloads both leave a field out, or both carry it with one value.
SameField(p, q, field) ==
    /\ (field \in DOMAIN p) = (field \in DOMAIN q)
    /\ field \in DOMAIN p => p[field] = q[field]

\* A numeric field of a payload, 0 when the field is left out.
FieldOr0(payload, field) == IF field \in DOMAIN payload THEN payload[field] ELSE 0

\* The assistant message of the turn that the step ends.
EndedTurn ==
    LET i == CHOOSE k \in 1..Len(AppendedEntries) :
                 /\ AppendedEntries[k].type = "message"
                 /\ AppendedEntries[k].message.role = "assistant"
    IN  AppendedEntries[i].message

\* C21: at the end of an assistant turn the message request comes first and
\* the session request second; the session payload carries the counter used
\* in the id of the turn's message and token totals that include the usage of
\* the turn.
C21_TurnThenSession ==
    [][ (AssistantTurnEnds /\ state # Absent) =>
            /\ OpsOf(reqs') = <<"syncMessage", "syncSession">>
            /\ LET message == reqs'[1].payload
                   session == reqs'[2].payload
               IN  /\ FieldOr0(session, "messageCount") = state.messageCount + 1
                   /\ message.externalId =
                         state.externalId
                           \o <<"-", "assistant", "-",
                                ToString(FieldOr0(session, "messageCount"))>>
                   /\ session.externalId = message.sessionExternalId
                   /\ EndedTurn.usage # Absent =>
                         /\ FieldOr0(session, "promptTokens")
                               = state.promptTokens + EndedTurn.usage.input
                         /\ FieldOr0(session, "completionTokens")
                               = state.completionTokens + EndedTurn.usage.output
      ]_vars

\* The second of two turns with usage: the session payload counts both.
C21_Witness ==
    /\ lastEvent = "turn_end"
    /\ OpsOf(reqs) = <<"syncMessage", "syncSession">>
    /\ FieldOr0(reqs[2].payload, "messageCount") = 2
    /\ FieldOr0(reqs[2].payload, "promptTokens") = 2
    /\ FieldOr0(reqs[2].payload, "completionTokens") = 2

\* The user and assistant messages of a branch.
Backfillable(entries) ==
    SelectSeq(entries, LAMBDA e : e.type = "message"
                                  /\ e.message.role \in {"user", "assistant"})

RECURSIVE UsageSum(_, _)
UsageSum(entries, field) ==
    IF entries = << >> THEN 0
    ELSE (IF /\ Head(entries).type = "message"
             /\ Head(entries).message.role = "assistant"
             /\ Head(entries).message.usage # Absent
          THEN Head(entries).message.usage[field] ELSE 0)
         + UsageSum(Tail(entries), field)

\* C22: a fork sends the session of the new state without any total, then
\* one batch with the backfilled messages when there are any, then the
\* session again with messageCount and the token sums of the history.
C22_ForkOrder ==
    [][ lastEvent' = "session_fork" =>
            LET branch == files'[hostSessionId']
                first == reqs'[1].payload
                last == reqs'[Len(reqs')].payload
            IN  /\ OpsOf(reqs') = IF Backfillable(branch) # << >>
                                  THEN <<"syncSession", "syncBatch", "syncSession">>
                                  ELSE <<"syncSession", "syncSession">>
                /\ first.externalId = hostSessionId'
                /\ DOMAIN first \cap {"messageCount", "promptTokens",
                                      "completionTokens", "totalTokens", "cost"} = {}
                /\ Len(reqs') = 3 =>
                      /\ Len(reqs'[2].messages) = Len(Backfillable(branch))
                      /\ \A i \in 1..Len(reqs'[2].messages) :
                            /\ reqs'[2].messages[i].role = Backfillable(branch)[i].message.role
                            /\ reqs'[2].messages[i].sessionExternalId = hostSessionId'
                /\ last.externalId = hostSessionId'
                /\ FieldOr0(last, "messageCount") = state'.messageCount
                /\ FieldOr0(last, "promptTokens") = UsageSum(branch, "input")
                /\ FieldOr0(last, "completionTokens") = UsageSum(branch, "output")
      ]_vars

\* A fork over a user message and an assistant turn with usage.
C22_Witness ==
    /\ lastEvent = "session_fork"
    /\ OpsOf(reqs) = <<"syncSession", "syncBatch", "syncSession">>
    /\ Len(reqs[2].messages) = 2
    /\ "messageCount" \notin DOMAIN reqs[1].payload
    /\ FieldOr0(reqs[3].payload, "messageCount") >= 2
    /\ FieldOr0(reqs[3].payload, "promptTokens") = 1

C24_UnregisteredDoesNothing ==
    (config = Absent \/ config.autoSync = FALSE) =>
        /\ state = Absent
        /\ reqs = << >>
        /\ results = << >>
        /\ fetches = 0
        /\ sent = << >>

\* With autoSync false the host has started a second session, and a user
\* input and an assistant turn have gone by.
C24_Witness ==
    /\ config # Absent
    /\ config.autoSync = FALSE
    /\ Cardinality(known) = 2
    /\ lastEvent = "turn_end"
    /\ \E i \in 1..Len(Branch) :
          /\ Branch[i].type = "message"
          /\ Branch[i].message.role = "user"
    /\ \E i \in 1..Len(Branch) :
          /\ Branch[i].type = "message"
          /\ Branch[i].message.role = "assistant"
    /\ state = Absent
    /\ sent = << >>

\* ------------------------------------- claims on resume, fork and live sync

\* A fresh session that handles the messages of a history as live events:
\* every user message through the input handler, every assistant message
\* through the turn_end handler. Tool results and custom messages raise no
\* event of their own.
RECURSIVE LiveReplay(_, _, _)
LiveReplay(st, entries, cfg) ==
    IF entries = << >> THEN st
    ELSE LET entry == Head(entries)
             after ==
                IF entry.type # "message" THEN st
                ELSE IF entry.message.role = "user"
                     THEN OnInput(st, "interactive", entry.message.content[1].text,
                                  0, AllOk).state
                ELSE IF entry.message.role = "assistant"
                     THEN OnTurnEnd(st, entry.message, << >>, << >>, cfg, 0, AllOk).state
                ELSE st
         IN  LiveReplay(after, Tail(entries), cfg)

\* C25: after session_start over a history, messageCount, toolCallCount,
\* promptTokens and completionTokens are those of a fresh session that has
\* handled the messages of the history live, and the session payload is the
\* same.
C25_ResumeEqualsLive ==
    [][ lastEvent' = "session_start" =>
            LET history == files[hostSessionId']
                live == LiveReplay(NewSessionState(hostSessionId', Cwd, hostModel,
                                                   << >>, now),
                                   history, config)
            IN  /\ state'.messageCount = live.messageCount
                /\ state'.toolCallCount = live.toolCallCount
                /\ state'.promptTokens = live.promptTokens
                /\ state'.completionTokens = live.completionTokens
                /\ reqs'[1].payload = transformSession(live, hostName, FALSE, now)
      ]_vars

\* The tool results the host has recorded after message i of a branch.
RECURSIVE ToolResultsAfter(_, _)
ToolResultsAfter(branch, i) ==
    IF i + 1 > Len(branch) THEN << >>
    ELSE IF /\ branch[i + 1].type = "message"
            /\ branch[i + 1].message.role = "toolResult"
         THEN <<branch[i + 1].message>> \o ToolResultsAfter(branch, i + 1)
         ELSE << >>

\* What the turn_end handler sends for message i of a branch.
LivePayload(branch, i, cfg) ==
    OnTurnEnd(NewSessionState(hostSessionId, Cwd, hostModel, << >>, 0),
              branch[i].message, ToolResultsAfter(branch, i), << >>, cfg, 0,
              AllOk).reqs[1].payload

\* Where the user and assistant messages of a branch are.
BackfillableAt(branch) ==
    LET at == {i \in 1..Len(branch) :
                  /\ branch[i].type = "message"
                  /\ branch[i].message.role \in {"user", "assistant"}}
    IN  [n \in 1..Cardinality(at) |->
            CHOOSE i \in at : Cardinality({j \in at : j <= i}) = n]

\* C26: an assistant message in the batch of a fork has the textContent and
\* the parts that the turn_end handler sends for that message under the same
\* configuration.
C26_BackfillEqualsLive ==
    [][ (lastEvent' = "session_fork" /\ Len(reqs') = 3) =>
            LET branch == files'[hostSessionId']
                batch == reqs'[2].messages
            IN  \A n \in 1..Len(batch) :
                   batch[n].role = "assistant" =>
                      LET live == LivePayload(branch, BackfillableAt(branch)[n], config)
                      IN  /\ SameField(batch[n], live, "textContent")
                          /\ PartsOf(batch[n]) = PartsOf(live)
      ]_vars

\* C27: after a fork, messageCount of the new SessionState is the number of
\* message payloads in the batch of the fork.
C27_ForkCountEqualsBatch ==
    [][ lastEvent' = "session_fork" =>
            state'.messageCount =
               (IF Len(reqs') = 3 THEN Len(reqs'[2].messages) ELSE 0)
      ]_vars

\* C30: with syncToolCalls off, the message sent at the end of an assistant
\* turn has no tool-call part and no tool-result part.
C30_NoToolPartsWhenOff ==
    [][ (AssistantTurnEnds /\ state # Absent /\ config.syncToolCalls = FALSE) =>
            \A i \in 1..Len(PartsOf(reqs'[1].payload)) :
               /\ ~IsCallPart(PartsOf(reqs'[1].payload)[i])
               /\ ~IsResultPart(PartsOf(reqs'[1].payload)[i])
      ]_vars

\* ------------------------------------------ claims on what is left unsent

\* The message without its Thinking entries.
WithoutThinking(message) ==
    [message EXCEPT !.content = SelectSeq(message.content, LAMBDA part : ~IsThinking(part))]

\* C29: with thinking-inclusion off, textContent and parts of the payload are
\* those of the message without its Thinking entries (so two messages that
\* differ only in Thinking entries give the same textContent and parts), no
\* part is a thinking part and textContent holds no <thinking> marker.
C29_ThinkingOffIndependent ==
    (tPayload # Absent /\ ~tIncludeThinking) =>
        LET plain == transformAssistantMessage(tPayload.sessionExternalId,
                                               tPayload.externalId,
                                               WithoutThinking(tMessage),
                                               tIncludeThinking, tToolResults)
        IN  /\ SameField(tPayload, plain, "textContent")
            /\ PartsOf(tPayload) = PartsOf(plain)
            /\ \A i \in 1..Len(PartsOf(tPayload)) : ~IsThinkingPart(PartsOf(tPayload)[i])
            /\ "textContent" \in DOMAIN tPayload =>
                  \A i \in 1..Len(tPayload.textContent) :
                     tPayload.textContent[i] \notin {"<thinking>", "</thinking>"}

\* Thinking-inclusion is off and the content holds a text, a Thinking entry
\* and a tool call that has a result: the parts are text, call, result.
C29_Witness ==
    /\ tPayload # Absent
    /\ ~tIncludeThinking
    /\ \E i \in 1..Len(tMessage.content) : IsThinking(tMessage.content[i])
    /\ \E i \in 1..Len(tMessage.content) : IsToolCall(tMessage.content[i])
    /\ Len(tToolResults) = 1
    /\ "textContent" \in DOMAIN tPayload
    /\ Len(PartsOf(tPayload)) = 3
    /\ PartsOf(tPayload)[1].type = "text"
    /\ IsCallPart(PartsOf(tPayload)[2])
    /\ IsResultPart(PartsOf(tPayload)[3])

\* --------------------------------------------------- claims on debug tracing

\* C28: a sync operation makes the same fetch calls and returns the same
\* result with debug tracing on or off; when the append to the debug log
\* fails, the operation does not raise and its result is the one it has
\* without tracing.  Without tracing nothing is written.
C28_TracingChangesNothing ==
    cAttempt # Absent =>
        LET quiet == CallOn(cRequest, cOutcome, Untraced) IN
        /\ ~cAttempt.raised
        /\ cAttempt.value = quiet.value
        /\ cAttempt.fetched = quiet.fetched
        /\ Len(cAttempt.fetched) = 1
        /\ (~cTracing.debug \/ cTracing.appendFails) => cAttempt.logged = << >>

\* Tracing is on, every append to the log fails, and the operation succeeds.
C28_Witness ==
    /\ cAttempt # Absent
    /\ cTracing.debug
    /\ cTracing.appendFails
    /\ ~cAttempt.raised
    /\ cAttempt.value.success
    /\ cAttempt.logged = << >>

\* ------------------------------------------------ claims on the SessionState

\* The assistant messages of a branch.
AssistantMessagesOf(entries) ==
    LET kept == SelectSeq(entries, LAMBDA e : e.type = "message"
                                              /\ e.message.role = "assistant")
    IN  [i \in 1..Len(kept) |-> kept[i].message]

RECURSIVE CostSum(_)
CostSum(messages) ==
    IF messages = << >> THEN 0
    ELSE (IF Head(messages).usage # Absent THEN Head(messages).usage.cost.total ELSE 0)
         + CostSum(Tail(messages))

RECURSIVE ToolCallSum(_)
ToolCallSum(messages) ==
    IF messages = << >> THEN 0
    ELSE Cardinality({i \in 1..Len(Head(messages).content) :
                         IsToolCall(Head(messages).content[i])})
         + ToolCallSum(Tail(messages))

\* C31: while a SessionState lives, promptTokens, completionTokens, cost and
\* toolCallCount do not decrease; after every step promptTokens and
\* completionTokens are the sums of usage.input and usage.output over the
\* assistant messages of the session, restored and live, and toolCallCount is
\* the number of ToolCall entries in them.
C31_AccumulatorsAreSums ==
    [][ /\ (/\ state # Absent
            /\ state' # Absent
            /\ lastEvent' \notin {"session_start", "session_fork"}) =>
              /\ state'.promptTokens >= state.promptTokens
              /\ state'.completionTokens >= state.completionTokens
              /\ state'.cost >= state.cost
              /\ state'.toolCallCount >= state.toolCallCount
        /\ state' # Absent =>
              LET branch == files'[hostSessionId'] IN
              /\ state'.promptTokens = UsageSum(branch, "input")
              /\ state'.completionTokens = UsageSum(branch, "output")
              /\ state'.cost = CostSum(AssistantMessagesOf(branch))
              /\ state'.toolCallCount = ToolCallSum(AssistantMessagesOf(branch))
      ]_vars

\* A session resumed over one assistant message has handled a second one
\* live: both are in the totals.
C31_Witness ==
    /\ state # Absent
    /\ origin # Absent
    /\ origin.event = "session_start"
    /\ origin.K > 0
    /\ lastEvent = "turn_end"
    /\ Len(AssistantMessagesOf(Branch)) = 2
    /\ state.promptTokens = 2
    /\ state.completionTokens = 2
    /\ state.toolCallCount >= 2

\* ----------------------------------------- claims on pairing and plain text

\* C32: tool results are paired with tool calls by position: there are
\* min(calls, results) tool-result parts, the k-th of them built from the
\* k-th supplied result, every ToolCall entry has its tool-call part, and a
\* call beyond the result list is not followed by a tool-result part.
C32_PairedByPosition ==
    tPayload # Absent =>
        LET parts == PartsOf(tPayload)
            calls == countToolCalls(tMessage.content)
            paired == IF calls < Len(tToolResults) THEN calls ELSE Len(tToolResults)
            resultParts == SelectSeq(parts, IsResultPart)
        IN  /\ Len(SelectSeq(parts, IsCallPart)) = calls
            /\ Len(resultParts) = paired
            /\ \A k \in 1..paired : resultParts[k].content = ResultText(tToolResults[k])
            /\ \A j \in 1..Len(parts) :
                  (IsCallPart(parts[j]) /\ CallsUpTo(parts, j) > Len(tToolResults)) =>
                      (j = Len(parts) \/ ~IsResultPart(parts[j + 1]))

\* Three calls and one result, which is of another tool than the first call:
\* call, result, call, call.
C32_Witness ==
    /\ tPayload # Absent
    /\ countToolCalls(tMessage.content) = 3
    /\ Len(tToolResults) = 1
    /\ tMessage.content[1].name # tToolResults[1].toolName
    /\ Len(PartsOf(tPayload)) = 4
    /\ IsCallPart(PartsOf(tPayload)[1])
    /\ IsResultPart(PartsOf(tPayload)[2])
    /\ IsCallPart(PartsOf(tPayload)[3])
    /\ IsCallPart(PartsOf(tPayload)[4])

\* The first n of the pieces, a newline between each two.
RECURSIVE LinesUpTo(_, _)
LinesUpTo(pieces, n) ==
    IF n = 0 THEN << >>
    ELSE IF n = 1 THEN pieces[1]
    ELSE LinesUpTo(pieces, n - 1) \o <<"\n">> \o pieces[n]

\* The plain text of a content list: the Text entries and, with
\* thinking-inclusion on, the wrapped Thinking entries, in the original order.
PlainText(content, includeThinking) ==
    LET kept == SelectSeq(content,
                          LAMBDA part : IsText(part) \/ (includeThinking /\ IsThinking(part)))
        pieces == [i \in 1..Len(kept) |->
                     IF IsText(kept[i]) THEN kept[i].text
                     ELSE <<"<thinking>">> \o kept[i].thinking \o <<"</thinking>">>]
    IN  LinesUpTo(pieces, Len(pieces))

\* C33: extractAssistantMessageText gives the Text entries and, only with
\* thinking-inclusion on, the Thinking entries wrapped in <thinking> and
\* </thinking>, in the original order with a newline between each two;
\* ToolCall entries add nothing; the payload has textContent exactly when this
\* text is not the empty string, and then it is this text.
C33_PlainText ==
    tPayload # Absent =>
        LET expected == PlainText(tMessage.content, tIncludeThinking) IN
        /\ extractAssistantMessageText(tMessage.content, tIncludeThinking) = expected
        /\ extractAssistantMessageText(
              SelectSeq(tMessage.content, LAMBDA part : ~IsToolCall(part)),
              tIncludeThinking) = expected
        /\ ("textContent" \in DOMAIN tPayload) = (expected # << >>)
        /\ "textContent" \in DOMAIN tPayload => tPayload.textContent = expected

\* A text, a tool call and an included Thinking entry.
C33_Witness ==
    /\ tPayload # Absent
    /\ tIncludeThinking
    /\ Len(tMessage.content) = 3
    /\ IsText(tMessage.content[1])
    /\ IsToolCall(tMessage.content[2])
    /\ IsThinking(tMessage.content[3])
    /\ "textContent" \in DOMAIN tPayload
    /\ tPayload.textContent = <<"a", "\n", "<thinking>", "t", "</thinking>">>

\* ------------------------------------------- claims on ids and fixed fields

\* C34: the id of a live message is <externalId>-<role>-<n>, n being
\* messageCount after the increment made for the message: 1 for the first
\* message of a fresh session, one more for each following live message.
C34_LiveMessageId ==
    [][ (state # Absent /\ (lastEvent' = "input" \/ AssistantTurnEnds)) =>
            LET role == IF lastEvent' = "input" THEN "user" ELSE "assistant" IN
            /\ state'.messageCount = state.messageCount + 1
            /\ reqs'[1].op = "syncMessage"
            /\ reqs'[1].payload.role = role
            /\ reqs'[1].payload.externalId =
                  state.externalId \o <<"-", role, "-", ToString(state.messageCount + 1)>>
      ]_vars

\* The second live message of a fresh session, an assistant turn after a
\* user input.
C34_Witness ==
    /\ state # Absent
    /\ origin # Absent
    /\ origin.event = "session_start"
    /\ origin.K = 0
    /\ lastEvent = "turn_end"
    /\ state.messageCount = 2
    /\ Len(sent) >= 2
    /\ reqs[1].payload.externalId = state.externalId \o <<"-", "assistant", "-", "2">>
    /\ \E i \in 1..Len(sent) :
          sent[i].externalId = state.externalId \o <<"-", "user", "-", "1">>

\* C35: a step that keeps the SessionState leaves externalId,
\* parentExternalId, projectPath and startedAt as they are; only
\* session_start and session_fork, which put a new state in place, give them
\* other values.
C35_IdentityIsFixed ==
    [][ (/\ state # Absent
         /\ state' # Absent
         /\ lastEvent' \notin {"session_start", "session_fork"}) =>
            /\ state'.externalId = state.externalId
            /\ state'.parentExternalId = state.parentExternalId
            /\ state'.projectPath = state.projectPath
            /\ state'.startedAt = state.startedAt
      ]_vars

\* A session started before the clock advanced has handled an input and a
\* change of model.
C35_Witness ==
    /\ state # Absent
    /\ state.externalId = hostSessionId
    /\ state.startedAt < now
    /\ state.messageCount >= 1
    /\ lastEvent = "model_select"

\* ------------------------------------------------- claims on notifications

\* C36: a handler notifies the user of an error only after a failed request
\* and only with debug mode on and a UI present; with debug mode off no step
\* notifies of anything.
C36_NotifyOnlyInDebug ==
    /\ notified # << >> =>
          /\ config.debug
          /\ hasUI
          /\ \E i \in 1..Len(results) : ~results[i].success
    /\ (config # Absent /\ ~config.debug) => notified = << >>

\* Debug mode is on and there is a UI: both requests of a turn_end fail and
\* the user is told of both.
C36_Witness ==
    /\ config.debug
    /\ hasUI
    /\ lastEvent = "turn_end"
    /\ Len(results) = 2
    /\ ~results[1].success
    /\ ~results[2].success
    /\ Len(notified) = 2
    /\ notified[1][2] = "Failed to sync assistant message: "
    /\ notified[2][2] = "Failed to update session: "

\* ------------------------------------------- claims on overlapping handlers

\* The live messages sent so far: those sent by syncMessage.
LiveSent == SelectSeq(sent, LAMBDA m : m.via = "syncMessage")

C38_SameSessionInTurn ==
    [][ (/\ lastEvent' = "resume"
         /\ resumed'.handler = "turn_end"
         /\ resumed'.pc = 1
         /\ reqs' # << >>) =>
            reqs'[1].payload.externalId = resumed'.locals.payload.sessionExternalId
      ]_vars

\* C39: a turn_end that goes on after its message request never reads a
\* property of an absent state, also when a session_shutdown has completed in
\* the meantime.
C39_NoReadOfDiscardedState ==
    \A r \in rejected : r.handler # "turn_end"

====
